---- MODULE Spec2Model ----
(***************************************************************************)
(* A model of wercker's docker publish steps (docker/docker.go):           *)
(*   - DockerPushStep.Execute / DockerScratchPushStep.Execute and the      *)
(*     shared tagAndPush loop, as a state machine (specification Spec);    *)
(*   - InferRegistryAndRepository, as a pure operator over strings         *)
(*     (specification SpecInfer).                                          *)
(* Go strings are modelled as sequences of one-character strings, so that  *)
(* lower-casing, trimming, concatenation and URL parsing are computed.     *)
(***************************************************************************)
EXTENDS Integers, Sequences, FiniteSets, TLC

VARIABLES
    cfg,        \* the step as configured by InitEnv and the runner's options
    pc,         \* position inside Execute / tagAndPush
    tags,       \* s.tags
    repository, \* s.repository
    imageID,    \* the image id handed to tagAndPush
    idx,        \* 1-based position of the range loop over s.tags
    buf,        \* the bytes.Buffer of the current tag, as status-stream items
    calls,      \* authenticator and engine calls issued so far, in order
    defers,     \* deferred calls not yet run (last element runs first); the
                \* deferred Close calls on the files of the scratch build
                \* touch nothing the model tracks and are not recorded
    emitted,    \* tags for which e.Emit("Pushed repo:tag") was issued
    scratchDir, \* whether HostPath("scratch") exists on disk
    ret,        \* the (code, error) pair returned by Execute
    index,      \* the repositories file of the scratch archive, once written
    inferIn,    \* arguments of InferRegistryAndRepository
    inferOut,   \* its outcome
    tarIn,      \* entries of layer.tar, the collected artifact
    tarOut,     \* entries written to real_layer.tar, and how far Execute got
    collects,   \* the artificer.Collect calls made, each with its outcome
    layer,      \* real_layer.tar, the digester, the diffID and the moved file
    autherIn,   \* the step's data and the runner's options at buildAutherOpts
    autherOut,  \* opts, s.repository, s.builtInPush and s.tags afterwards
    storeIn,    \* args.MaxTries and what the client, the file and OCI will do
    storeOut,   \* how far StoreFromFile got, its requests and its result
    pushCfg,    \* s.tags and the docker options of one tagAndPush call
    pusher,     \* tagAndPush itself: position, tag index, buf, defers, calls
    pipe,       \* the io.Pipe: open or closed, and the chunk a Write holds
    forwarder,  \* the EmitStatus task: what it has read, and end of stream
    ctx         \* the context of the surrounding request

vars == <<cfg, pc, tags, repository, imageID, idx, buf, calls, defers,
          emitted, scratchDir, ret, index, inferIn, inferOut, tarIn, tarOut,
          collects, layer, autherIn, autherOut, storeIn, storeOut,
          pushCfg, pusher, pipe, forwarder, ctx>>

publishVars == <<cfg, pc, tags, repository, imageID, idx, buf, calls, defers,
                 emitted, scratchDir, ret, index>>

inferVars == <<inferIn, inferOut>>

layerVars == <<tarIn, tarOut, collects, layer>>

autherVars == <<autherIn, autherOut>>

\* buildAutherOpts is not running
IdleAuther ==
    /\ autherIn = <<>>
    /\ autherOut = <<>>

storeVars == <<storeIn, storeOut>>

\* StoreFromFile is not running
IdleStore ==
    /\ storeIn = <<>>
    /\ storeOut = <<>>

pipeVars == <<pushCfg, pusher, pipe, forwarder, ctx>>

\* no chunk-level run of tagAndPush
IdlePipe ==
    /\ pushCfg = <<>>
    /\ pusher = <<>>
    /\ pipe = <<>>
    /\ forwarder = <<>>
    /\ ctx = <<>>

\* no scratch layer is being built
IdleLayer ==
    /\ tarIn = <<>>
    /\ tarOut = <<>>
    /\ collects = <<>>
    /\ layer = <<>>

----------------------------------------------------------------------------
(* Strings *)

Cat3(s, t, u) == s \o t \o u

\* unicode.ToLower on the letters the model uses
LowerChar(c) ==
    CASE c = "A" -> "a"
      [] c = "B" -> "b"
      [] c = "O" -> "o"
      [] c = "Q" -> "q"
      [] c = "R" -> "r"
      [] OTHER -> c

\* strings.ToLower
ToLower(s) == [k \in 1..Len(s) |-> LowerChar(s[k])]

IsSpace(c) == c = " "

\* strings.TrimSpace
TrimSpace(s) ==
    LET keep == {k \in 1..Len(s) : ~IsSpace(s[k])}
    IN  IF keep = {} THEN <<>>
        ELSE LET lo == CHOOSE k \in keep : \A j \in keep : k <= j
                 hi == CHOOSE k \in keep : \A j \in keep : j <= k
             IN  SubSeq(s, lo, hi)

\* strings.IndexRune / strings.Index for a one-character needle; 0 when absent
IndexOf(s, c) ==
    IF \E k \in 1..Len(s) : s[k] = c
    THEN CHOOSE k \in 1..Len(s) : s[k] = c /\ \A j \in 1..(k - 1) : s[j] # c
    ELSE 0

HasPrefix(s, p) == Len(s) >= Len(p) /\ SubSeq(s, 1, Len(p)) = p

----------------------------------------------------------------------------
(* Errors and the status stream *)

NilErr == [kind |-> "nil", text |-> <<>>]

Err(kind, text) == [kind |-> kind, text |-> text]

\* the NoPushConfirmationInStatus constant
NoPushConfirmationInStatus ==
    <<"D", "o", "c", "k", "e", "r", " ", "p", "u", "s", "h", " ", "f", "a",
      "i", "l", "e", "d", " ", "t", "o", " ", "c", "o", "m", "p", "l", "e",
      "t", "e", ".", " ", "P", "l", "e", "a", "s", "e", " ", "c", "h", "e",
      "c", "k", " ", "l", "o", "g", "s", " ", "f", "o", "r", " ", "a", "n",
      "y", " ", "e", "r", "r", "o", "r", " ", "c", "o", "n", "d", "i", "t",
      "i", "o", "n", ".", ".">>

S_Code == <<"C", "o", "d", "e", ":", " ">>

S_Message == <<",", " ", "M", "e", "s", "s", "a", "g", "e", ":", " ">>

\* fmt.Sprintf("Code: %s, Message: %s", code, message)
FormatErrorDetail(code, message) == S_Code \o code \o S_Message \o message

\* errors of the collaborators (engine, authenticator, file system), by origin
TransportErr(op) == Err(op, <<"f", "a", "i", "l">>)

\* fmt.Errorf("Error interacting with this repository: %s %v", ...)
AccessErr == Err("access", <<"e", "r", "r">>)

\* fmt.Errorf("Not allowed to interact with this repository: %s", ...)
NotAllowedErr == Err("access", <<"d", "e", "n", "y">>)

\* a line json.Decoder cannot decode into a PushStatus
BadItem ==
    [bad |-> TRUE, error |-> <<>>, hasDetail |-> FALSE, code |-> <<>>,
     message |-> <<>>, hasAux |-> FALSE, auxTag |-> <<>>]

\* a decoded PushStatus: Error, ErrorDetail{Code, Message}, Aux{Tag}
StatusRecord(error, hasDetail, hasAux, auxTag) ==
    [bad |-> FALSE, error |-> error, hasDetail |-> hasDetail,
     code |-> IF hasDetail THEN <<"c">> ELSE <<>>,
     message |-> IF hasDetail THEN <<"m">> ELSE <<>>,
     hasAux |-> hasAux, auxTag |-> IF hasAux THEN auxTag ELSE <<>>]

T_a == <<"a">>

T_b == <<"b">>

T_latest == <<"l", "a", "t", "e", "s", "t">>

\* a tag the registry may acknowledge instead of the one being pushed
OtherTag(tag) == IF tag = T_a THEN T_b ELSE T_a

ErrorTexts == {<<>>, <<" ">>, <<"d">>}

\* the records a push of `tag` may write to its output stream
StatusItems(tag) ==
    {BadItem} \cup
    {StatusRecord(e, d, x # <<>>, x) :
        e \in ErrorTexts, d \in BOOLEAN, x \in {<<>>, tag, OtherTag(tag)}}

\* the engine sends errorDetail only next to an error, and an error record
\* never acknowledges another tag
PlausibleItem(tag, it) ==
    /\ it.hasDetail => it.error = <<"d">>
    /\ (it.hasAux /\ it.auxTag # tag) => it.error = <<>>

MaxStream == 2

RECURSIVE SeqsUpTo(_, _)
SeqsUpTo(S, n) ==
    IF n = 0 THEN {<<>>}
    ELSE LET shorter == SeqsUpTo(S, n - 1)
         IN  shorter \cup {Append(q, x) : q \in {r \in shorter : Len(r) = n - 1}, x \in S}

Streams(tag) == SeqsUpTo({it \in StatusItems(tag) : PlausibleItem(tag, it)}, MaxStream)

\* Decode, were an undecodable line skipped instead of ending the loop
Decode_SkipBad(stream) == SelectSeq(stream, LAMBDA it : ~it.bad)

\* the json.Decoder loop: records up to the first decode failure or EOF
Decode(stream) ==
    LET bads == {k \in 1..Len(stream) : stream[k].bad}
        stop == IF bads = {} THEN Len(stream) + 1
                ELSE CHOOSE k \in bads : \A j \in bads : k <= j
    IN  SubSeq(stream, 1, stop - 1)

IsErrorRecord(m) == Len(TrimSpace(m.error)) # 0

\* FirstError, were the error field never looked at
FirstError_None(msgs) == 0

\* FirstError, were the last error record reported instead of the first
FirstError_Last(msgs) ==
    LET errs == {k \in 1..Len(msgs) : IsErrorRecord(msgs[k])}
    IN  IF errs = {} THEN 0 ELSE CHOOSE k \in errs : \A j \in errs : j <= k

\* position of the first record the loop returns on; 0 when there is none
FirstError(msgs) ==
    LET errs == {k \in 1..Len(msgs) : IsErrorRecord(msgs[k])}
    IN  IF errs = {} THEN 0 ELSE CHOOSE k \in errs : \A j \in errs : k <= j

\* ErrorMessageToDisplay, were errorDetail never consulted
ErrorMessageToDisplay_Raw(m) == m.error

ErrorMessageToDisplay(m) ==
    IF m.hasDetail THEN FormatErrorDetail(m.code, m.message) ELSE m.error

IsAuxFor(m, tag) == m.hasAux /\ m.auxTag = tag

\* the records the classification loop visits before it returns or ends
Visited(msgs) ==
    IF FirstError(msgs) = 0 THEN msgs ELSE SubSeq(msgs, 1, FirstError(msgs) - 1)

\* IsContainerPushed, were the confirmation not required
IsContainerPushed_Always(msgs, tag) == TRUE

\* isContainerPushed at the end of the loop (when no record returned)
IsContainerPushed(msgs, tag) == \E k \in 1..Len(msgs) : IsAuxFor(msgs[k], tag)

\* the e.Emit calls of the loop, one per visited record with a matching aux
Emits(msgs, tag) ==
    LET v == Visited(msgs)
    IN  SelectSeq([k \in 1..Len(v) |-> IF IsAuxFor(v[k], tag) THEN tag ELSE <<>>],
                  LAMBDA t : t # <<>>)

----------------------------------------------------------------------------
(* The publish steps *)

MaxTags == 2

TagNames == {T_a, T_b}

\* the "tag" property after SplitSpaceOrComma: any list, duplicates included
TagLists == SeqsUpTo(TagNames, MaxTags)

GitBranch == <<"m">>

GitCommit == <<"1">>

\* names of the repository before and after authenticator.Repository
RawRepository == "repo"

\* CanonicalRepository, were the authenticator to return its argument
CanonicalRepository_Identity(r) == r

CanonicalRepository(r) == IF r = RawRepository THEN "canon/repo" ELSE r

\* the step after InitEnv, with the docker options of the run
Configs ==
    [path : {"classic", "scratch"}, local : BOOLEAN, cleanupImage : BOOLEAN,
     image : {"", "img"}, tags : TagLists, builtInPush : BOOLEAN]

\* DockerScratchPushStep never reads s.image, and buildTags reads
\* s.builtInPush only when no tag was configured
RelevantConfig(c) ==
    /\ c.path = "scratch" => c.image = ""
    /\ c.builtInPush => c.tags = <<>>

\* one call to the authenticator or the engine, and whether it succeeded
Call(op, repo, tag, id, ok) ==
    [op |-> op, repo |-> repo, tag |-> tag, id |-> id, ok |-> ok]

Deferred(kind, repo, tag) == [kind |-> kind, repo |-> repo, tag |-> tag]

\* fmt.Sprintf("%s-%s", s.options.GitBranch, s.options.GitCommit)
GitTag == Cat3(GitBranch, <<"-">>, GitCommit)

\* buildTags, were no default applied
buildTags_Verbatim(t, builtInPush) == t

buildTags(t, builtInPush) ==
    IF Len(t) = 0 /\ ~builtInPush THEN <<T_latest>>
    ELSE IF Len(t) = 0 /\ builtInPush THEN <<T_latest, GitTag>>
    ELSE t

\* NotLocal, were the local option ignored
NotLocal_Always(c) == TRUE

\* !s.dockerOptions.Local
NotLocal(c) == ~c.local

\* hex of the sha256 of the image JSON
LayerID == "layer"

NoIndex == [repo |-> "", entries |-> <<>>]

\* RepositoriesIndex, were only the first tag listed
RepositoriesIndex_FirstTagOnly(repo, tagList, layerID) ==
    [repo |-> repo,
     entries |-> [k \in 1..(IF tagList = <<>> THEN 0 ELSE 1) |->
                     [tag |-> tagList[k], layer |-> layerID]]]

\* the repositories file: {"<repo>":{"<tag>":"<layerID>",...}}
RepositoriesIndex(repo, tagList, layerID) ==
    [repo |-> repo,
     entries |-> [k \in 1..Len(tagList) |-> [tag |-> tagList[k], layer |-> layerID]]]

InitPublish ==
    /\ cfg \in {c \in Configs : RelevantConfig(c)}
    /\ pc = "start"
    /\ tags = cfg.tags
    /\ repository = RawRepository
    /\ imageID = ""
    /\ idx = 0
    /\ buf = <<>>
    /\ calls = <<>>
    /\ defers = <<>>
    /\ emitted = <<>>
    /\ scratchDir = FALSE
    /\ ret = [code |-> 0, err |-> NilErr]
    /\ index = NoIndex

\* a return statement of Execute or tagAndPush: the deferred calls run next
Return(code, err) ==
    /\ ret' = [code |-> code, err |-> err]
    /\ pc' = IF defers' = <<>> THEN "done" ELSE "unwind"

Returned == pc \in {"unwind", "done"}

\* DockerPushStep.Execute: NewDockerClient, EmitterFromContext, buildTags
ClassicSetup ==
    /\ pc = "start" /\ cfg.path = "classic"
    /\ \E outcome \in {"ok", "noClient", "noEmitter"} :
         IF outcome = "ok"
         THEN /\ tags' = buildTags(tags, cfg.builtInPush)
              /\ pc' = "authorize"
              /\ UNCHANGED <<ret, defers>>
         ELSE /\ UNCHANGED <<tags, defers>>
              /\ Return(1, TransportErr(outcome))
    /\ UNCHANGED <<cfg, repository, imageID, idx, buf, calls, emitted, scratchDir, index>>

\* DockerPushStep.Execute: the access check and authenticator.Repository
ClassicAuthorize ==
    /\ pc = "authorize" /\ cfg.path = "classic"
    /\ IF ~NotLocal(cfg)
       THEN /\ repository' = CanonicalRepository(repository)
            /\ pc' = "materialize"
            /\ UNCHANGED <<calls, ret, defers>>
       ELSE \E outcome \in {"allowed", "denied", "error"} :
              /\ calls' = Append(calls, Call("CheckAccess", repository, <<>>, "",
                                             outcome = "allowed"))
              /\ CASE outcome = "error" ->
                     /\ UNCHANGED <<repository, defers>>
                     /\ Return(-1, AccessErr)
                [] outcome = "denied" ->
                     /\ UNCHANGED <<repository, defers>>
                     /\ Return(-1, NotAllowedErr)
                [] OTHER ->
                     /\ repository' = CanonicalRepository(repository)
                     /\ pc' = "materialize"
                     /\ UNCHANGED <<ret, defers>>
    /\ UNCHANGED <<cfg, tags, imageID, idx, buf, emitted, scratchDir, index>>

\* NeedsCommit, were the configured image ignored
NeedsCommit_Always(image) == TRUE

\* var imageID = s.image; if imageID == "" { commit }
NeedsCommit(image) == image = ""

\* DockerPushStep.Execute: commit the container unless an image was named
ClassicMaterialize ==
    /\ pc = "materialize" /\ cfg.path = "classic"
    /\ IF ~NeedsCommit(cfg.image)
       THEN /\ imageID' = cfg.image
            /\ pc' = "tagAndPush"
            /\ UNCHANGED <<calls, ret, defers>>
       ELSE \E outcome \in {"ok", "error"} :
              /\ calls' = Append(calls, Call("CommitContainer", repository, tags[1], "",
                                             outcome = "ok"))
              /\ IF outcome = "error"
                 THEN /\ UNCHANGED <<imageID, defers>>
                      /\ Return(-1, TransportErr("CommitContainer"))
                 ELSE /\ imageID' = "commit"
                      /\ defers' = IF cfg.cleanupImage
                                   THEN Append(defers, Deferred("cleanupImage", repository, tags[1]))
                                   ELSE defers
                      /\ pc' = "tagAndPush"
                      /\ UNCHANGED ret
    /\ UNCHANGED <<cfg, tags, repository, idx, buf, emitted, scratchDir, index>>

\* tagAndPush: io.Pipe, go EmitStatus, defer w.Close()
TagAndPushEnter ==
    /\ pc = "tagAndPush"
    /\ defers' = Append(defers, Deferred("closePipe", "", <<>>))
    /\ idx' = 1
    /\ pc' = "tag"
    /\ UNCHANGED <<cfg, tags, repository, imageID, buf, calls, emitted, scratchDir, ret, index>>

\* tagAndPush: the head of the range loop, TagImage, the fresh buffer and
\* the deferred cleanupImage; in local mode the iteration ends here
TagStep ==
    /\ pc = "tag"
    /\ IF idx > Len(tags)
       THEN /\ UNCHANGED <<calls, defers, buf, idx>>
            /\ Return(0, NilErr)
       ELSE \E outcome \in {"ok", "error"} :
              /\ calls' = Append(calls, Call("TagImage", repository, tags[idx], imageID,
                                             outcome = "ok"))
              /\ IF outcome = "error"
                 THEN /\ UNCHANGED <<defers, buf, idx>>
                      /\ Return(1, TransportErr("TagImage"))
                 ELSE /\ buf' = <<>>
                      /\ defers' = IF cfg.cleanupImage
                                   THEN Append(defers, Deferred("cleanupImage", repository, tags[idx]))
                                   ELSE defers
                      /\ IF ~NotLocal(cfg)
                         THEN idx' = idx + 1 /\ pc' = "tag"
                         ELSE idx' = idx /\ pc' = "push"
                      /\ UNCHANGED ret
    /\ UNCHANGED <<cfg, tags, repository, imageID, emitted, scratchDir, index>>

\* what the engine may have written to the output stream when PushImage
\* itself fails
StreamsOnError(tag) ==
    {<<>>, <<StatusRecord(<<>>, FALSE, TRUE, tag)>>, <<StatusRecord(<<"d">>, FALSE, FALSE, <<>>)>>}

\* tagAndPush: client.PushImage writing the status stream into buf
PushStep ==
    /\ pc = "push"
    /\ \/ /\ calls' = Append(calls, Call("PushImage", repository, tags[idx], "", FALSE))
          /\ buf' \in StreamsOnError(tags[idx])
          /\ UNCHANGED defers
          /\ Return(1, TransportErr("PushImage"))
       \/ /\ calls' = Append(calls, Call("PushImage", repository, tags[idx], "", TRUE))
          /\ buf' \in Streams(tags[idx])
          /\ pc' = "verify"
          /\ UNCHANGED <<ret, defers>>
    /\ UNCHANGED <<cfg, tags, repository, imageID, idx, emitted, scratchDir, index>>

\* tagAndPush: decode the buffer and classify the records
VerifyStep ==
    /\ pc = "verify"
    /\ LET msgs == Decode(buf)
           tag == tags[idx]
       IN  /\ emitted' = emitted \o Emits(msgs, tag)
           /\ IF FirstError(msgs) # 0
              THEN /\ UNCHANGED <<idx, defers>>
                   /\ Return(1, Err("status", ErrorMessageToDisplay(msgs[FirstError(msgs)])))
              ELSE IF ~IsContainerPushed(msgs, tag)
              THEN /\ UNCHANGED <<idx, defers>>
                   /\ Return(1, Err("status", NoPushConfirmationInStatus))
              ELSE /\ idx' = idx + 1
                   /\ pc' = "tag"
                   /\ UNCHANGED <<ret, defers>>
    /\ UNCHANGED <<cfg, tags, repository, imageID, buf, calls, scratchDir, index>>

\* cleanupImage, were the repository name used as configured
cleanupImage_Raw(d) ==
    \E ok \in BOOLEAN : calls' = Append(calls, Call("RemoveImage", RawRepository, d.tag, "", ok))

\* cleanupImage, were the image left in place
cleanupImage_Noop(d) == UNCHANGED calls

\* cleanupImage: RemoveImage, whose failure is only logged
cleanupImage(d) ==
    \E ok \in BOOLEAN : calls' = Append(calls, Call("RemoveImage", d.repo, d.tag, "", ok))

\* the deferred calls of the returning frames, last registered first
RunDeferred ==
    /\ pc = "unwind"
    /\ LET d == defers[Len(defers)]
       IN  /\ CASE d.kind = "cleanupImage" ->
                     /\ cleanupImage(d)
                     /\ UNCHANGED scratchDir
                [] d.kind = "removeScratch" ->
                     /\ scratchDir' = FALSE
                     /\ UNCHANGED calls
                [] OTHER -> UNCHANGED <<calls, scratchDir>>
           /\ defers' = SubSeq(defers, 1, Len(defers) - 1)
           /\ pc' = IF defers' = <<>> THEN "done" ELSE "unwind"
    /\ buf' = <<>>
    /\ UNCHANGED <<cfg, tags, repository, imageID, idx, emitted, ret, index>>

\* a step of DockerScratchPushStep.Execute that touches only local files:
\* it either goes on to `next` or returns `code` with an error
LocalStep(at, next, failCodes, op) ==
    /\ pc = at /\ cfg.path = "scratch"
    /\ \/ /\ pc' = next
          /\ UNCHANGED <<ret, defers>>
       \/ /\ UNCHANGED defers
          /\ \E code \in failCodes : Return(code, TransportErr(op))

\* CollectArtifact, then the layer copy and the image JSON (up to layerID)
ScratchBuildLayer ==
    /\ LocalStep("start", "mkdir", {-1}, "layer")
    /\ UNCHANGED <<cfg, tags, repository, imageID, idx, buf, calls, emitted, scratchDir, index>>

\* os.MkdirAll(HostPath("scratch", layerID)): may fail half-way
ScratchMkdir ==
    /\ pc = "mkdir" /\ cfg.path = "scratch"
    /\ \/ /\ scratchDir' = TRUE
          /\ pc' = "rename"
          /\ UNCHANGED <<ret, defers>>
       \/ /\ scratchDir' \in BOOLEAN
          /\ UNCHANGED defers
          /\ Return(-1, TransportErr("mkdir"))
    /\ UNCHANGED <<cfg, tags, repository, imageID, idx, buf, calls, emitted, index>>

\* os.Rename of the layer file, then defer os.RemoveAll(HostPath("scratch"))
ScratchRename ==
    /\ pc = "rename" /\ cfg.path = "scratch"
    /\ \/ /\ defers' = Append(defers, Deferred("removeScratch", "", <<>>))
          /\ pc' = "files"
          /\ UNCHANGED ret
       \/ /\ UNCHANGED defers
          /\ Return(-1, TransportErr("rename"))
    /\ UNCHANGED <<cfg, tags, repository, imageID, idx, buf, calls, emitted, scratchDir, index>>

\* VERSION, json and repositories files (with s.tags = s.buildTags()),
\* scratch.tar and NewDockerClient
ScratchWriteArchive ==
    /\ pc = "files" /\ cfg.path = "scratch"
    /\ \/ /\ tags' = buildTags(tags, cfg.builtInPush)
          /\ index' = RepositoriesIndex(CanonicalRepository(repository), tags', LayerID)
          /\ \/ /\ pc' = "authorize"
                /\ UNCHANGED <<ret, defers>>
             \/ /\ UNCHANGED defers
                /\ \E code \in {-1, 1} : Return(code, TransportErr("archive"))
       \/ /\ UNCHANGED <<tags, defers, index>>
          /\ Return(-1, TransportErr("files"))
    /\ UNCHANGED <<cfg, repository, imageID, idx, buf, calls, emitted, scratchDir>>

\* ScratchAccessRefused, were a plain denial not checked
ScratchAccessRefused_ErrOnly(check, err) == err

\* the scratch path's test on CheckAccess's results: !check || err != nil
ScratchAccessRefused(check, err) == ~check \/ err

\* DockerScratchPushStep.Execute: the access check and authenticator.Repository
ScratchAuthorize ==
    /\ pc = "authorize" /\ cfg.path = "scratch"
    /\ IF ~NotLocal(cfg)
       THEN /\ repository' = CanonicalRepository(repository)
            /\ pc' = "load"
            /\ UNCHANGED <<calls, ret, defers>>
       ELSE \E outcome \in {"allowed", "denied", "error"} :
              /\ calls' = Append(calls, Call("CheckAccess", repository, <<>>, "",
                                             outcome = "allowed"))
              /\ IF ScratchAccessRefused(outcome = "allowed", outcome = "error")
                 THEN /\ UNCHANGED <<repository, defers>>
                      /\ Return(-1, NotAllowedErr)
                 ELSE /\ repository' = CanonicalRepository(repository)
                      /\ pc' = "load"
                      /\ UNCHANGED <<ret, defers>>
    /\ UNCHANGED <<cfg, tags, imageID, idx, buf, emitted, scratchDir, index>>

\* open scratch.tar (with defer loadFile.Close()), EmitterFromContext,
\* client.LoadImage
ScratchLoad ==
    /\ pc = "load" /\ cfg.path = "scratch"
    /\ \E outcome \in {"ok", "noFile", "noEmitter", "loadError"} :
         /\ calls' = IF outcome \in {"ok", "loadError"}
                     THEN Append(calls, Call("LoadImage", "", <<>>, "", outcome = "ok"))
                     ELSE calls
         /\ defers' = IF outcome = "noFile" THEN defers
                      ELSE Append(defers, Deferred("closeFile", "", <<>>))
         /\ IF outcome = "ok"
            THEN /\ imageID' = LayerID
                 /\ pc' = "tagAndPush"
                 /\ UNCHANGED ret
            ELSE /\ UNCHANGED imageID
                 /\ Return(IF outcome = "noFile" THEN -1 ELSE 1, TransportErr(outcome))
    /\ UNCHANGED <<cfg, tags, repository, idx, buf, emitted, scratchDir, index>>

Init ==
    /\ InitPublish
    /\ inferIn = <<>>
    /\ inferOut = <<>>
    /\ IdleLayer
    /\ IdleAuther
    /\ IdleStore
    /\ IdlePipe

Next ==
    \/ ClassicSetup /\ UNCHANGED <<inferVars, layerVars, autherVars, storeVars, pipeVars>>
    \/ ClassicAuthorize /\ UNCHANGED <<inferVars, layerVars, autherVars, storeVars, pipeVars>>
    \/ ClassicMaterialize /\ UNCHANGED <<inferVars, layerVars, autherVars, storeVars, pipeVars>>
    \/ ScratchBuildLayer /\ UNCHANGED <<inferVars, layerVars, autherVars, storeVars, pipeVars>>
    \/ ScratchMkdir /\ UNCHANGED <<inferVars, layerVars, autherVars, storeVars, pipeVars>>
    \/ ScratchRename /\ UNCHANGED <<inferVars, layerVars, autherVars, storeVars, pipeVars>>
    \/ ScratchWriteArchive /\ UNCHANGED <<inferVars, layerVars, autherVars, storeVars, pipeVars>>
    \/ ScratchAuthorize /\ UNCHANGED <<inferVars, layerVars, autherVars, storeVars, pipeVars>>
    \/ ScratchLoad /\ UNCHANGED <<inferVars, layerVars, autherVars, storeVars, pipeVars>>
    \/ TagAndPushEnter /\ UNCHANGED <<inferVars, layerVars, autherVars, storeVars, pipeVars>>
    \/ TagStep /\ UNCHANGED <<inferVars, layerVars, autherVars, storeVars, pipeVars>>
    \/ PushStep /\ UNCHANGED <<inferVars, layerVars, autherVars, storeVars, pipeVars>>
    \/ VerifyStep /\ UNCHANGED <<inferVars, layerVars, autherVars, storeVars, pipeVars>>
    \/ RunDeferred /\ UNCHANGED <<inferVars, layerVars, autherVars, storeVars, pipeVars>>

Spec == Init /\ [][Next]_vars

----------------------------------------------------------------------------
(* InferRegistryAndRepository *)

Letters ==
    {"a", "b", "c", "d", "e", "h", "i", "k", "l", "n", "o", "p", "q", "r", "s",
     "t", "v", "w", "x", "y", "A", "B", "O", "Q", "R"}

Digits == {"1", "2"}

LowerAlnum == {c \in Letters : LowerChar(c) = c} \cup Digits

Contains(s, c) == IndexOf(s, c) # 0

\* s[from:] in Go's 0-based slices, for a 1-based first position
From(s, first) == SubSeq(s, first, Len(s))

\* strings.Split(s, "/")
RECURSIVE SplitSlash(_)
SplitSlash(s) ==
    IF ~Contains(s, "/") THEN <<s>>
    ELSE <<SubSeq(s, 1, IndexOf(s, "/") - 1)>> \o SplitSlash(From(s, IndexOf(s, "/") + 1))

S_dockerio == <<"d", "o", "c", "k", "e", "r", ".", "i", "o">>

S_indexdockerio == <<"i", "n", "d", "e", "x", ".">> \o S_dockerio

S_localhost == <<"l", "o", "c", "a", "l", "h", "o", "s", "t">>

S_library == <<"l", "i", "b", "r", "a", "r", "y">>

S_https == <<"h", "t", "t", "p", "s", ":", "/", "/">>

S_v2 == <<"/", "v", "2">>

\* splitDockerDomain: a first component without '.' or ':' that is not
\* "localhost" is no domain
IsBareHead(head) == ~Contains(head, ".") /\ ~Contains(head, ":") /\ head # S_localhost

\* splitDockerDomain: split at the first '/', found at position i (0: none)
SplitAtSlash(name, i) ==
    IF i = 0 \/ IsBareHead(SubSeq(name, 1, i - 1))
    THEN [domain |-> S_dockerio, remainder |-> name]
    ELSE [domain |-> SubSeq(name, 1, i - 1), remainder |-> From(name, i + 1)]

\* splitDockerDomain: the legacy default domain becomes the default domain
SplitLegacy(sp) ==
    IF sp.domain = S_indexdockerio
    THEN [domain |-> S_dockerio, remainder |-> sp.remainder]
    ELSE sp

\* splitDockerDomain: official repositories live under "library/"
SplitOfficial(sp) ==
    IF sp.domain = S_dockerio /\ ~Contains(sp.remainder, "/")
    THEN [domain |-> sp.domain, remainder |-> S_library \o <<"/">> \o sp.remainder]
    ELSE sp

\* reference.splitDockerDomain, as called through ParseNormalizedNamed
splitDockerDomain(name) == SplitOfficial(SplitLegacy(SplitAtSlash(name, IndexOf(name, "/"))))

\* one path component of the reference grammar: lower-case alphanumerics,
\* separated by '.', '_' or '-' that neither begin nor end it
ValidPathComponent(c) ==
    /\ Len(c) > 0
    /\ \A k \in 1..Len(c) : c[k] \in LowerAlnum \cup {".", "_", "-"}
    /\ c[1] \in LowerAlnum /\ c[Len(c)] \in LowerAlnum

ValidPath(parts) == \A k \in 1..Len(parts) : ValidPathComponent(parts[k])

\* host part of the reference grammar's domain: alphanumerics and inner
\* '.' and '-'
ValidDomainHost(host) ==
    /\ Len(host) > 0
    /\ \A k \in 1..Len(host) : host[k] \in Letters \cup Digits \cup {".", "-"}
    /\ host[1] \notin {".", "-"} /\ host[Len(host)] \notin {".", "-"}

AllDigits(t) == \A k \in 1..Len(t) : t[k] \in Digits

\* the domain of the reference grammar, with its optional numeric port
\* after the ':' at position colon (0: none)
ValidDomainAt(d, colon) ==
    IF colon = 0 THEN ValidDomainHost(d)
    ELSE /\ ValidDomainHost(SubSeq(d, 1, colon - 1))
         /\ colon < Len(d) /\ AllDigits(From(d, colon + 1))

ValidDomain(d) == ValidDomainAt(d, IndexOf(d, ":"))

ValidTag(t) ==
    /\ Len(t) > 0
    /\ \A k \in 1..Len(t) : t[k] \in Letters \cup Digits \cup {".", "_", "-"}

\* the remainder of a reference: a lower-case path and an optional tag
\* after the ':' at position tagSep (0: none)
ValidRemainderAt(r, tagSep) ==
    IF tagSep = 0 THEN ToLower(r) = r /\ ValidPath(SplitSlash(r))
    ELSE /\ ToLower(SubSeq(r, 1, tagSep - 1)) = SubSeq(r, 1, tagSep - 1)
         /\ ValidPath(SplitSlash(SubSeq(r, 1, tagSep - 1)))
         /\ ValidTag(From(r, tagSep + 1))

\* ParseNormalizedNamed on the split name
NamedOf(sp) ==
    IF ValidDomain(sp.domain) /\ ValidRemainderAt(sp.remainder, IndexOf(sp.remainder, ":"))
    THEN [nil |-> FALSE, domain |-> sp.domain]
    ELSE [nil |-> TRUE, domain |-> <<>>]

\* reference.ParseNormalizedNamed: the parsed name, or nil when the string
\* is no image reference
ParseNormalizedNamed(s) == NamedOf(splitDockerDomain(s))

SchemeChars == Letters \cup Digits \cup {"+", "-", "."}

\* position of the first character that cannot belong to a scheme (0: none)
SchemeEnd(rawurl) ==
    IF \A k \in 1..Len(rawurl) : rawurl[k] \in SchemeChars THEN 0
    ELSE CHOOSE k \in 1..Len(rawurl) :
            /\ rawurl[k] \notin SchemeChars
            /\ \A j \in 1..(k - 1) : rawurl[j] \in SchemeChars

\* net/url getscheme, with the scan stopping at position stop
SchemeAt(rawurl, stop) ==
    IF Len(rawurl) = 0 THEN [ok |-> TRUE, scheme |-> <<>>, rest |-> rawurl]
    ELSE IF rawurl[1] = ":" THEN [ok |-> FALSE, scheme |-> <<>>, rest |-> <<>>]
    ELSE IF rawurl[1] \notin Letters THEN [ok |-> TRUE, scheme |-> <<>>, rest |-> rawurl]
    ELSE IF stop # 0 /\ rawurl[stop] = ":"
    THEN [ok |-> TRUE, scheme |-> SubSeq(rawurl, 1, stop - 1), rest |-> From(rawurl, stop + 1)]
    ELSE [ok |-> TRUE, scheme |-> <<>>, rest |-> rawurl]

\* net/url getscheme
getscheme(rawurl) == SchemeAt(rawurl, SchemeEnd(rawurl))

\* net/url parseHost for a host without brackets: a port, if any, is
\* numeric, and no character needs escaping
ValidUrlHostAt(h, colon) ==
    /\ \A k \in 1..Len(h) : h[k] # " "
    /\ colon # 0 => AllDigits(From(h, colon + 1))

ValidUrlHost(h) == ValidUrlHostAt(h, IndexOf(h, ":"))

\* the authority of "//authority/path": up to the next '/' at position slash
AuthorityAt(a, slash) == IF slash = 0 THEN a ELSE SubSeq(a, 1, slash - 1)

UrlFailed == [ok |-> FALSE, host |-> <<>>]

UrlWithHost(authority) ==
    IF ValidUrlHost(authority) THEN [ok |-> TRUE, host |-> authority] ELSE UrlFailed

\* url.Parse after getscheme: opaque URLs, the colon in the first path
\* segment, and the authority
ParseAfterScheme(scheme, rest, colon, slash) ==
    IF ~HasPrefix(rest, <<"/">>) /\ scheme # <<>>
    THEN [ok |-> TRUE, host |-> <<>>]
    ELSE IF ~HasPrefix(rest, <<"/">>) /\ colon # 0 /\ (slash = 0 \/ colon < slash)
    THEN UrlFailed
    ELSE IF HasPrefix(rest, <<"/", "/">>)
            /\ (scheme # <<>> \/ ~HasPrefix(rest, <<"/", "/", "/">>))
    THEN UrlWithHost(AuthorityAt(From(rest, 3), IndexOf(From(rest, 3), "/")))
    ELSE [ok |-> TRUE, host |-> <<>>]

UrlOfScheme(sch) ==
    IF ~sch.ok THEN UrlFailed
    ELSE ParseAfterScheme(sch.scheme, sch.rest, IndexOf(sch.rest, ":"), IndexOf(sch.rest, "/"))

\* url.Parse: whether it succeeds, and the Host of the URL (never lower-cased)
UrlParse(rawurl) == UrlOfScheme(getscheme(rawurl))

\* RegistryUrlOf, were the trailing slash not appended
RegistryUrlOf_NoSlash(domain) == S_https \o domain \o S_v2

\* (&url.URL{Scheme: "https", Host: domain, Path: "/v2"}).String() + "/"
RegistryUrlOf(domain) == S_https \o domain \o S_v2 \o <<"/">>

\* PrefixWithHost, were the separator forgotten
PrefixWithHost_NoSlash(host, repo) == host \o repo

\* domainFromRegistryURL + "/" + inferredRepository
PrefixWithHost(host, repo) == host \o <<"/">> \o repo

InferResult(status, repo, reg) == [status |-> status, repository |-> repo, registry |-> reg]

\* registryInferredFromRepository
RegistryInferredFrom(domainFromRepository) ==
    IF domainFromRepository # S_dockerio THEN RegistryUrlOf(domainFromRepository) ELSE <<>>

\* the branches on the registry argument, u being url.Parse's result
Reconcile(inferredRepository, domainFromRepository, registryInferredFromRepository, registry, u) ==
    IF Len(TrimSpace(registry)) # 0
    THEN IF ~u.ok
         THEN IF registryInferredFromRepository # <<>>
              THEN InferResult("ok", inferredRepository, registryInferredFromRepository)
              ELSE InferResult("error", <<>>, <<>>)
         ELSE IF Len(TrimSpace(domainFromRepository)) # 0
                 /\ domainFromRepository # S_dockerio
         THEN IF u.host # domainFromRepository
              THEN InferResult("ok", inferredRepository, registryInferredFromRepository)
              ELSE InferResult("ok", inferredRepository, registry)
         ELSE InferResult("ok", PrefixWithHost(u.host, inferredRepository), registry)
    ELSE InferResult("ok", inferredRepository, registryInferredFromRepository)

\* x is ParseNormalizedNamed's result, its error dropped; reference.Domain(x)
\* dereferences x, and with a nil x the function does not return
InferParsed(inferredRepository, x, registry) ==
    IF x.nil THEN InferResult("panic", <<>>, <<>>)
    ELSE Reconcile(inferredRepository, x.domain, RegistryInferredFrom(x.domain),
                   registry, UrlParse(registry))

InferLowered(inferredRepository, registry) ==
    InferParsed(inferredRepository, ParseNormalizedNamed(inferredRepository), registry)

\* InferRegistryAndRepository, were the empty repository not defaulted
InferRegistryAndRepository_NoDefault(repo, registry, opts) ==
    InferLowered(ToLower(repo), registry)

\* InferRegistryAndRepository; opts is pipelineOptions:
\* WerckerContainerRegistry (Host and String()), owner and application name
InferRegistryAndRepository(repo, registry, opts) ==
    IF repo = <<>>
    THEN InferResult("ok",
                     opts.registryHost \o <<"/">> \o opts.owner \o <<"/">> \o opts.app,
                     opts.registryUrl)
    ELSE InferLowered(ToLower(repo), registry)

S_qio == <<"q", ".", "i", "o">>

S_Qio == <<"Q", ".", "i", "o">>

S_rio == <<"r", ".", "i", "o">>

S_wio == <<"w", ".", "i", "o">>

\* the domain a repository argument may start with (<<>>: none)
RepoDomains == {<<>>, S_qio, S_Qio, S_dockerio, S_indexdockerio, S_localhost}

\* path components: lower-case, upper-case, and one no reference may hold
PathComponents == {<<"a">>, <<"B">>, <<"a", " ", "b">>}

MaxPathParts == 2

RECURSIVE JoinSlash(_)
JoinSlash(parts) ==
    IF Len(parts) = 1 THEN parts[1]
    ELSE parts[1] \o <<"/">> \o JoinSlash(Tail(parts))

RepoPaths == {JoinSlash(q) : q \in SeqsUpTo(PathComponents, MaxPathParts) \ {<<>>}}

Repositories ==
    {<<>>} \cup
    {IF d = <<>> THEN path ELSE d \o <<"/">> \o path : d \in RepoDomains, path \in RepoPaths}

\* registry arguments: absent, blank, well-formed (hosts q.io, Q.io, r.io and
\* the runner's own), without scheme, and two that url.Parse rejects
Registries ==
    {<<>>, <<" ">>,
     RegistryUrlOf(S_qio), RegistryUrlOf(S_Qio), RegistryUrlOf(S_rio), RegistryUrlOf(S_wio),
     S_qio,
     <<":", "b">>,
     S_https \o <<"q", " ", "i", "o">> \o S_v2}

PipelineOptions ==
    [registryHost : {S_wio}, registryUrl : {RegistryUrlOf(S_wio)},
     owner : {<<"o", "w", "n">>, <<"O", "w", "n">>}, app : {<<"a", "p", "p">>}]

\* the publish step is not running
IdlePublish ==
    /\ cfg = [path |-> "classic", local |-> TRUE, cleanupImage |-> FALSE,
              image |-> "", tags |-> <<>>, builtInPush |-> FALSE]
    /\ pc = "idle"
    /\ tags = <<>>
    /\ repository = RawRepository
    /\ imageID = ""
    /\ idx = 0
    /\ buf = <<>>
    /\ calls = <<>>
    /\ defers = <<>>
    /\ emitted = <<>>
    /\ scratchDir = FALSE
    /\ ret = [code |-> 0, err |-> NilErr]
    /\ index = NoIndex

InitInfer ==
    /\ IdlePublish
    /\ inferIn \in [repository : Repositories, registry : Registries, opts : PipelineOptions]
    /\ inferOut = InferResult("none", <<>>, <<>>)
    /\ IdleLayer
    /\ IdleAuther
    /\ IdleStore
    /\ IdlePipe

\* one call of InferRegistryAndRepository
Infer ==
    /\ inferOut.status = "none"
    /\ inferOut' = InferRegistryAndRepository(inferIn.repository, inferIn.registry, inferIn.opts)
    /\ UNCHANGED inferIn

NextInfer == Infer /\ UNCHANGED <<publishVars, layerVars, autherVars, storeVars, pipeVars>>

SpecInfer == InitInfer /\ [][NextInfer]_vars

----------------------------------------------------------------------------
(* The layer copy of DockerScratchPushStep.Execute *)

S_output == <<"o", "u", "t", "p", "u", "t", "/">>

S_source == <<"s", "o", "u", "r", "c", "e", "/">>

S_dotslash == <<".", "/">>

\* StripPrefix, were both prefixes removed one after the other
StripPrefix_Both(name) ==
    LET n == IF HasPrefix(name, S_output) THEN From(name, Len(S_output) + 1) ELSE name
    IN  IF HasPrefix(n, S_source) THEN From(n, Len(S_source) + 1) ELSE n

\* the renaming of hdr.Name: "output/" is cut, else "source/" is cut
StripPrefix(name) ==
    IF HasPrefix(name, S_output) THEN From(name, Len(S_output) + 1)
    ELSE IF HasPrefix(name, S_source) THEN From(name, Len(S_source) + 1)
    ELSE name

\* a tar entry: the name and the rest of the header, and the body
TarEntry(name, meta, body) == [name |-> name, meta |-> meta, body |-> body]

\* one turn of the copy loop: what it appends to the layer (the error of
\* tw.WriteHeader is discarded by the code; the header write is taken to
\* succeed)
CopyEntry(hdr) ==
    IF hdr.name = S_dotslash THEN <<>>
    ELSE IF Len(StripPrefix(hdr.name)) = 0 THEN <<>>
    ELSE <<TarEntry(StripPrefix(hdr.name), hdr.meta, hdr.body)>>

\* the copy loop over the entries tr.Next delivers
RECURSIVE CopyEntries(_)
CopyEntries(entries) ==
    IF entries = <<>> THEN <<>>
    ELSE CopyEntry(Head(entries)) \o CopyEntries(Tail(entries))

\* names of the artifact's entries
EntryNames ==
    {S_dotslash, S_output, S_source, <<"a">>,
     S_output \o <<"a">>, S_source \o <<"a">>,
     S_output \o S_source \o <<"a">>, S_source \o S_output,
     S_output \o S_output, S_output \o S_dotslash}

\* the rest of the header (mode, size, ...) and the body, by identity
EntryMetas == {"dir", "file"}

MaxEntries == 2

TarEntries == {TarEntry(n, m, IF m = "file" THEN "body" ELSE "") : n \in EntryNames, m \in EntryMetas}

\* outcomes of one artificer.Collect call: a tarball, util.ErrEmptyTarball,
\* any other error
CollectOutcomes == {"ok", "empty", "error"}

CollectCall(dir, outcome) == [dir |-> dir, outcome |-> outcome]

\* CollectArtifact, were the source directory collected after any error
CollectArtifact_AnyError(first, second) ==
    IF first = "ok" THEN <<CollectCall("output", first)>>
    ELSE <<CollectCall("output", first), CollectCall("source", second)>>

\* CollectArtifact: the Collect calls it makes, given the outcome of the
\* first and (if made) of the second; the error it returns is that of the
\* last call
CollectArtifact(first, second) ==
    IF first = "ok" THEN <<CollectCall("output", first)>>
    ELSE IF first = "empty"
         THEN <<CollectCall("output", first), CollectCall("source", second)>>
    ELSE <<CollectCall("output", first)>>

\* the Collect call whose error CollectArtifact returns
LastCollect(cs) == cs[Len(cs)]

\* what the tar writer hands to its underlying writer, one Write per chunk
TarChunk(kind, name, data) == [kind |-> kind, name |-> name, data |-> data]

\* an entry whose body has not been written
HeaderOnly(e) == TarEntry(e.name, e.meta, "")

\* the writes of tw.WriteHeader and io.Copy(tw, tr) for the entries copied:
\* WriteHeader first flushes the padding the previous body left pending,
\* then writes the header block; nothing follows the last body, since the
\* code never calls tw.Flush or tw.Close
RECURSIVE LayerChunks(_, _)
LayerChunks(entries, pending) ==
    IF entries = <<>> THEN <<>>
    ELSE LET e == Head(entries)
         IN  (IF pending THEN <<TarChunk("padding", <<>>, "")>> ELSE <<>>)
             \o <<TarChunk("header", e.name, e.meta)>>
             \o (IF e.body # "" THEN <<TarChunk("body", e.name, e.body)>> ELSE <<>>)
             \o LayerChunks(Tail(entries), e.body # "")

NoDigest == [alg |-> "none", of |-> <<>>]

\* digest.Canonical over the bytes fed to the digester
Digest(chunks) == [alg |-> "sha256", of |-> chunks]

NoFile == [present |-> FALSE, chunks |-> <<>>]

File(chunks) == [present |-> TRUE, chunks |-> chunks]

NoLayer == [file |-> <<>>, digested |-> <<>>, diffID |-> NoDigest, layerTar |-> NoFile, returned |-> <<>>]

\* io.MultiWriter, were the digester left out
MultiWriter_FileOnly(l, chunks) == [l EXCEPT !.file = @ \o chunks]

\* mwriter := io.MultiWriter(layerFile, digester.Hash()): each Write goes to
\* the file, then to the digester
MultiWriter(l, chunks) == [l EXCEPT !.file = @ \o chunks, !.digested = @ \o chunks]

\* a Write the file fails part-way: MultiWriter stops at the first writer
\* that fails, the digester is not written
FailedWrite(l, chunk) == [l EXCEPT !.file = @ \o <<chunk>>]

\* return -1, err
LayerReturn(l) == [l EXCEPT !.returned = <<-1>>]

LayerStage(status, entries) == [status |-> status, entries |-> entries]

InitLayer ==
    /\ IdlePublish
    /\ inferIn = <<>>
    /\ inferOut = <<>>
    /\ tarIn \in SeqsUpTo(TarEntries, MaxEntries)
    /\ tarOut = LayerStage("none", <<>>)
    /\ collects = <<>>
    /\ layer = NoLayer
    /\ IdleAuther
    /\ IdleStore
    /\ IdlePipe

\* s.CollectArtifact(containerID); an error makes Execute return -1
Collect ==
    /\ tarOut.status = "none"
    /\ \E first \in CollectOutcomes, second \in CollectOutcomes :
          /\ collects' = CollectArtifact(first, second)
          /\ IF LastCollect(collects').outcome = "ok"
             THEN /\ tarOut' = LayerStage("collected", <<>>)
                  /\ layer' = layer
             ELSE /\ tarOut' = LayerStage("error", <<>>)
                  /\ layer' = LayerReturn(layer)
    /\ UNCHANGED tarIn

\* entries 1..k-1 are copied and entry k fails: in tr.Next; or, for an entry
\* the loop copies, in io.Copy while reading; or in io.Copy while writing
\* its body
CopyFailure(k, how) ==
    LET done == CopyEntries(SubSeq(tarIn, 1, k - 1))
        cur == CopyEntry(tarIn[k])
    IN  /\ how # "next" => cur # <<>>
        /\ how = "write" => cur[1].body # ""
        /\ tarOut' = LayerStage("error", done)
        /\ layer' = LayerReturn(
              IF how = "next" THEN MultiWriter(layer, LayerChunks(done, FALSE))
              ELSE IF how = "read"
                   THEN MultiWriter(layer, LayerChunks(done \o <<HeaderOnly(cur[1])>>, FALSE))
              ELSE FailedWrite(MultiWriter(layer, LayerChunks(done \o <<HeaderOnly(cur[1])>>, FALSE)),
                               TarChunk("partial", cur[1].name, cur[1].body)))

\* layer.tar or real_layer.tar cannot be opened and Execute returns -1; or
\* the loop runs to io.EOF; or it fails on entry k and Execute returns -1
CopyLayer ==
    /\ tarOut.status = "collected"
    /\ \/ /\ tarOut' = LayerStage("error", <<>>)
          /\ layer' = LayerReturn(layer)
       \/ /\ tarOut' = LayerStage("ok", CopyEntries(tarIn))
          /\ layer' = MultiWriter(layer, LayerChunks(CopyEntries(tarIn), FALSE))
       \/ \E k \in 1..Len(tarIn), how \in {"next", "read", "write"} : CopyFailure(k, how)
    /\ UNCHANGED <<tarIn, collects>>

\* DiffIDs: digester.Digest(), then imageJSON.MarshalJSON(), whose error
\* makes Execute return -1
ReadDigest ==
    /\ tarOut.status = "ok"
    /\ \/ /\ tarOut' = LayerStage("digested", tarOut.entries)
          /\ layer' = [layer EXCEPT !.diffID = Digest(layer.digested)]
       \/ /\ tarOut' = LayerStage("error", tarOut.entries)
          /\ layer' = LayerReturn([layer EXCEPT !.diffID = Digest(layer.digested)])
    /\ UNCHANGED <<tarIn, collects>>

\* os.MkdirAll, layerFile.Close and os.Rename to scratch/<layerID>/layer.tar;
\* an error of MkdirAll or Rename makes Execute return -1
MoveLayer ==
    /\ tarOut.status = "digested"
    /\ \/ /\ tarOut' = LayerStage("moved", tarOut.entries)
          /\ layer' = [layer EXCEPT !.layerTar = File(layer.file)]
       \/ /\ tarOut' = LayerStage("error", tarOut.entries)
          /\ layer' = LayerReturn(layer)
    /\ UNCHANGED <<tarIn, collects>>

NextLayer ==
    \/ Collect /\ UNCHANGED <<publishVars, inferVars, autherVars, storeVars, pipeVars>>
    \/ CopyLayer /\ UNCHANGED <<publishVars, inferVars, autherVars, storeVars, pipeVars>>
    \/ ReadDigest /\ UNCHANGED <<publishVars, inferVars, autherVars, storeVars, pipeVars>>
    \/ MoveLayer /\ UNCHANGED <<publishVars, inferVars, autherVars, storeVars, pipeVars>>

SpecLayer == InitLayer /\ [][NextLayer]_vars

----------------------------------------------------------------------------
(* buildAutherOpts, followed by the buildTags of Execute *)

\* DefaultDockerRegistryUsername
S_token == <<"t", "o", "k", "e", "n">>

\* the test for the runner's own registry, were it never met
UsesBuiltInRegistry_Never(registry, options) == FALSE

\* opts.Registry == s.options.WerckerContainerRegistry.String()
UsesBuiltInRegistry(registry, options) == registry = options.registryUrl

\* "If user use Azure or AWS container registry we don't infer."
InfersRegistry(data) == data.azureClientSecret = <<>> /\ data.awsSecretKey = <<>>

AutherResult(status, repo, registry, username, password, builtInPush, tagList) ==
    [status |-> status, repository |-> repo, registry |-> registry,
     username |-> username, password |-> password,
     builtInPush |-> builtInPush, tags |-> tagList]

\* the last block of buildAutherOpts, on the registry reached
SetBuiltIn(data, repo, registry) ==
    IF UsesBuiltInRegistry(registry, data.options)
    THEN AutherResult("ok", repo, registry, S_token, data.authToken, TRUE, data.tags)
    ELSE AutherResult("ok", repo, registry, data.username, data.password, FALSE, data.tags)

\* buildAutherOpts on the interpolated step data; an error of
\* InferRegistryAndRepository goes to s.logger.Panic
buildAutherOpts(data, inferred) ==
    IF InfersRegistry(data)
    THEN IF inferred.status = "ok"
         THEN SetBuiltIn(data, inferred.repository, inferred.registry)
         ELSE AutherResult("panic", data.repository, data.registry,
                           data.username, data.password, FALSE, data.tags)
    ELSE SetBuiltIn(data, data.repository, data.registry)

\* the step data buildAutherOpts reads, username and password being
\* configured or not, with the runner's options
AutherInputs ==
    [repository : Repositories, registry : Registries,
     username : {<<>>, <<"u">>}, password : {<<"p">>},
     awsSecretKey : {<<>>, <<"k">>}, azureClientSecret : {<<>>, <<"z">>},
     tags : {<<>>, <<T_latest>>},
     authToken : {<<"j", "w", "t">>},
     options : PipelineOptions]

InitAuther ==
    /\ IdlePublish
    /\ inferIn = <<>>
    /\ inferOut = <<>>
    /\ IdleLayer
    /\ autherIn \in AutherInputs
    /\ autherOut = AutherResult("none", <<>>, <<>>, <<>>, <<>>, FALSE, <<>>)
    /\ IdleStore
    /\ IdlePipe

\* InitEnv: opts := s.buildAutherOpts(env)
BuildAutherOpts ==
    /\ autherOut.status = "none"
    /\ autherOut' = buildAutherOpts(autherIn,
                        InferRegistryAndRepository(autherIn.repository, autherIn.registry,
                                                   autherIn.options))
    /\ UNCHANGED autherIn

\* Execute: s.tags = s.buildTags()
BuildTags ==
    /\ autherOut.status = "ok"
    /\ autherOut' = [autherOut EXCEPT !.status = "tagged",
                                      !.tags = buildTags(autherOut.tags, autherOut.builtInPush)]
    /\ UNCHANGED autherIn

NextAuther ==
    \/ BuildAutherOpts /\ UNCHANGED <<publishVars, inferVars, layerVars, storeVars, pipeVars>>
    \/ BuildTags /\ UNCHANGED <<publishVars, inferVars, layerVars, storeVars, pipeVars>>

SpecAuther == InitAuther /\ [][NextAuther]_vars

----------------------------------------------------------------------------
(* OciStore.StoreFromFile *)

MaxTriesMax == 3

\* if args.MaxTries == 0 { args.MaxTries = 1 }
NormalizeMaxTries(n) == IF n = 0 THEN 1 ELSE n

\* args.MaxTries and the outcome each call will have if it is made
StoreInputs ==
    [maxTries : 0..MaxTriesMax,
     client : {"ok", "error"}, stat : {"ok", "error"},
     open : {"ok", "error"}, put : {"ok", "error"}]

StoreState(at, maxTries, requests, err) ==
    [at |-> at, maxTries |-> maxTries, requests |-> requests, err |-> err]

InitStore ==
    /\ IdlePublish
    /\ inferIn = <<>>
    /\ inferOut = <<>>
    /\ IdleLayer
    /\ IdleAuther
    /\ storeIn \in StoreInputs
    /\ storeOut = StoreState("start", storeIn.maxTries, 0, "nil")
    /\ IdlePipe

\* MaxTries is normalised and the client is created, or its error is
\* returned
StoreClient ==
    /\ storeOut.at = "start"
    /\ storeOut' =
          IF storeIn.client = "error"
          THEN StoreState("returned", NormalizeMaxTries(storeOut.maxTries), 0, "client")
          ELSE StoreState("stat", NormalizeMaxTries(storeOut.maxTries), 0, "nil")
    /\ UNCHANGED storeIn

\* fileInfo, err := os.Stat(args.Path); fileInfo.Size(): the error is not
\* looked at, and on an error fileInfo is nil, so the call of Size panics
StoreStat ==
    /\ storeOut.at = "stat"
    /\ storeOut' =
          IF storeIn.stat = "error"
          THEN [storeOut EXCEPT !.at = "crash"]
          ELSE [storeOut EXCEPT !.at = "open"]
    /\ UNCHANGED storeIn

\* os.Open(args.Path), whose error is returned
StoreOpen ==
    /\ storeOut.at = "open"
    /\ storeOut' =
          IF storeIn.open = "error"
          THEN [storeOut EXCEPT !.at = "returned", !.err = "open"]
          ELSE [storeOut EXCEPT !.at = "put"]
    /\ UNCHANGED storeIn

\* objStoreClient.PutObject, once; its error or nil is returned
StorePut ==
    /\ storeOut.at = "put"
    /\ storeOut' =
          [storeOut EXCEPT !.at = "returned",
                           !.requests = @ + 1,
                           !.err = IF storeIn.put = "error" THEN "put" ELSE "nil"]
    /\ UNCHANGED storeIn

NextStore ==
    \/ StoreClient /\ UNCHANGED <<publishVars, inferVars, layerVars, autherVars, pipeVars>>
    \/ StoreStat /\ UNCHANGED <<publishVars, inferVars, layerVars, autherVars, pipeVars>>
    \/ StoreOpen /\ UNCHANGED <<publishVars, inferVars, layerVars, autherVars, pipeVars>>
    \/ StorePut /\ UNCHANGED <<publishVars, inferVars, layerVars, autherVars, pipeVars>>

SpecStore == InitStore /\ [][NextStore]_vars

----------------------------------------------------------------------------
(* tagAndPush and the log-forwarding task, write by write *)

MaxChunks == 2

\* s.tags at tagAndPush: one tag, two tags, the same tag twice
PushTagLists == {<<T_a>>, <<T_a, T_b>>, <<T_a, T_a>>}

PushConfigs == [tags : PushTagLists, local : BOOLEAN, cleanupImage : BOOLEAN]

\* what the transport may write in one Write during the push of `tag`: a
\* progress record, the acknowledgement of the tag, an error record
PushItems(tag) ==
    {StatusRecord(<<>>, FALSE, FALSE, <<>>),
     StatusRecord(<<>>, FALSE, TRUE, tag),
     StatusRecord(<<"d">>, FALSE, FALSE, <<>>)}

\* one Write of the transport, marked with the iteration that made it
Chunk(push, item) == [push |-> push, item |-> item]

ItemsOf(chunks) == [k \in 1..Len(chunks) |-> chunks[k].item]

\* the buffer of an iteration, were the previous one carried over
FreshBuffer_Keep(b) == b

\* buf := new(bytes.Buffer)
FreshBuffer(b) == <<>>

\* the deferred call that runs next, were defers run in registration order
NextDeferred_FIFO(d) == 1

\* the deferred call that runs next: the last one registered
NextDeferred(d) == Len(d)

WithoutDeferred(d, k) == SubSeq(d, 1, k - 1) \o SubSeq(d, k + 1, Len(d))

PushCall(op, tag, ok) == [op |-> op, tag |-> tag, ok |-> ok]

NotStarted == [read |-> <<>>, eof |-> FALSE, running |-> FALSE]

InitPipe ==
    /\ IdlePublish
    /\ inferIn = <<>>
    /\ inferOut = <<>>
    /\ IdleLayer
    /\ IdleAuther
    /\ IdleStore
    /\ pushCfg \in PushConfigs
    /\ pusher = [pc |-> "enter", idx |-> 0, buf |-> <<>>, chunk |-> <<>>, sent |-> 0,
                 defers |-> <<>>, calls |-> <<>>, code |-> 0]
    /\ pipe = [state |-> "none", pending |-> <<>>]
    /\ forwarder = NotStarted
    /\ ctx = [cancelled |-> FALSE, at |-> "", idx |-> 0]

\* return code, err: the deferred calls run next
PipeReturn(p, code) == [p EXCEPT !.pc = "unwind", !.code = code]

\* r, w := io.Pipe(); go EmitStatus(e, r, s.options); defer w.Close()
PipeEnter ==
    /\ pusher.pc = "enter"
    /\ pipe' = [pipe EXCEPT !.state = "open"]
    /\ forwarder' = [forwarder EXCEPT !.running = TRUE]
    /\ pusher' = [pusher EXCEPT !.pc = "tag", !.idx = 1, !.defers = <<"closePipe">>]
    /\ UNCHANGED <<pushCfg, ctx>>

\* the deferred cleanupImage of the iteration, if CleanupImage is set
WithCleanup(d, tag) == IF pushCfg.cleanupImage THEN Append(d, tag) ELSE d

\* after a successful TagImage: fresh buffer, deferred cleanupImage, and
\* PushImage unless the run is local
Tagged(p) ==
    [p EXCEPT !.buf = FreshBuffer(p.buf), !.sent = 0,
              !.defers = WithCleanup(p.defers, pushCfg.tags[p.idx]),
              !.pc = IF pushCfg.local THEN "tag" ELSE "push",
              !.idx = IF pushCfg.local THEN p.idx + 1 ELSE p.idx,
              !.calls = Append(p.calls, PushCall("TagImage", pushCfg.tags[p.idx], TRUE))]

\* the head of the range loop and client.TagImage
PipeTag ==
    /\ pusher.pc = "tag"
    /\ \/ /\ pusher.idx > Len(pushCfg.tags)
          /\ pusher' = PipeReturn(pusher, 0)
       \/ /\ pusher.idx <= Len(pushCfg.tags)
          /\ pusher' = Tagged(pusher)
       \/ /\ pusher.idx <= Len(pushCfg.tags)
          /\ pusher' = PipeReturn([pusher EXCEPT !.calls =
                           Append(@, PushCall("TagImage", pushCfg.tags[pusher.idx], FALSE))], 1)
    /\ UNCHANGED <<pushCfg, pipe, forwarder, ctx>>

\* inside client.PushImage: the transport calls mw.Write(chunk), and
\* io.MultiWriter(w, buf) calls w.Write first, which hands the chunk to the
\* pipe and blocks
TransportWrite ==
    /\ pusher.pc = "push"
    /\ pusher.sent < MaxChunks
    /\ \E it \in PushItems(pushCfg.tags[pusher.idx]) :
          /\ pipe' = [pipe EXCEPT !.pending = <<Chunk(pusher.idx, it)>>]
          /\ pusher' = [pusher EXCEPT !.pc = "pipeWrite", !.sent = @ + 1,
                                      !.chunk = <<Chunk(pusher.idx, it)>>]
    /\ UNCHANGED <<pushCfg, forwarder, ctx>>

\* the forwarder reads what the blocked Write holds
ForwarderRead ==
    /\ forwarder.running /\ ~forwarder.eof
    /\ pipe.pending # <<>>
    /\ forwarder' = [forwarder EXCEPT !.read = @ \o pipe.pending]
    /\ pipe' = [pipe EXCEPT !.pending = <<>>]
    /\ UNCHANGED <<pushCfg, pusher, ctx>>

\* w.Write has returned; io.MultiWriter goes on to buf.Write
BufferWrite ==
    /\ pusher.pc = "pipeWrite"
    /\ pipe.pending = <<>>
    /\ pusher' = [pusher EXCEPT !.pc = "push", !.buf = @ \o pusher.chunk, !.chunk = <<>>]
    /\ UNCHANGED <<pushCfg, pipe, forwarder, ctx>>

\* client.PushImage returns, with an error or without
PushReturns ==
    /\ pusher.pc = "push"
    /\ \/ pusher' = [pusher EXCEPT !.pc = "verify", !.calls =
                        Append(@, PushCall("PushImage", pushCfg.tags[pusher.idx], TRUE))]
       \/ pusher' = PipeReturn([pusher EXCEPT !.calls =
                        Append(@, PushCall("PushImage", pushCfg.tags[pusher.idx], FALSE))], 1)
    /\ UNCHANGED <<pushCfg, pipe, forwarder, ctx>>

\* the buffer is decoded and classified
Verdict(msgs, tag) ==
    IF FirstError(msgs) # 0 THEN "error"
    ELSE IF ~IsContainerPushed(msgs, tag) THEN "unconfirmed"
    ELSE "pushed"

PipeVerify ==
    /\ pusher.pc = "verify"
    /\ pusher' = IF Verdict(Decode(ItemsOf(pusher.buf)), pushCfg.tags[pusher.idx]) = "pushed"
                 THEN [pusher EXCEPT !.pc = "tag", !.idx = @ + 1]
                 ELSE PipeReturn(pusher, 1)
    /\ UNCHANGED <<pushCfg, pipe, forwarder, ctx>>

\* one deferred call runs: cleanupImage (RemoveImage, its error only
\* logged) or w.Close()
PipeUnwind ==
    /\ pusher.pc = "unwind"
    /\ IF pusher.defers = <<>>
       THEN /\ pusher' = [pusher EXCEPT !.pc = "done"]
            /\ UNCHANGED pipe
       ELSE LET k == NextDeferred(pusher.defers)
                d == pusher.defers[k]
            IN  IF d = "closePipe"
                THEN /\ pipe' = [pipe EXCEPT !.state = "closed"]
                     /\ pusher' = [pusher EXCEPT !.defers = WithoutDeferred(@, k)]
                ELSE /\ UNCHANGED pipe
                     /\ \E ok \in BOOLEAN :
                          pusher' = [pusher EXCEPT !.defers = WithoutDeferred(@, k),
                                        !.calls = Append(@, PushCall("RemoveImage", d, ok))]
    /\ UNCHANGED <<pushCfg, forwarder, ctx>>

\* the forwarder's Read returns io.EOF once the writer is closed
ForwarderEOF ==
    /\ forwarder.running /\ ~forwarder.eof
    /\ pipe.state = "closed" /\ pipe.pending = <<>>
    /\ forwarder' = [forwarder EXCEPT !.eof = TRUE]
    /\ UNCHANGED <<pushCfg, pusher, pipe, ctx>>

\* the surrounding request is cancelled (ctx records whether PushImage was
\* in flight, and for which iteration); tagAndPush is not handed the context
\* and no PushImageOptions.Context is set, so nothing in it changes
Cancel ==
    /\ ~ctx.cancelled
    /\ pusher.pc \notin {"enter", "done"}
    /\ ctx' = IF pusher.pc \in {"push", "pipeWrite"}
              THEN [cancelled |-> TRUE, at |-> "push", idx |-> pusher.idx]
              ELSE [cancelled |-> TRUE, at |-> "other", idx |-> 0]
    /\ UNCHANGED <<pushCfg, pusher, pipe, forwarder>>

PusherStep ==
    /\ \/ PipeEnter
       \/ PipeTag
       \/ TransportWrite
       \/ BufferWrite
       \/ PushReturns
       \/ PipeVerify
       \/ PipeUnwind
    /\ UNCHANGED <<publishVars, inferVars, layerVars, autherVars, storeVars>>

ForwarderStep ==
    /\ \/ ForwarderRead
       \/ ForwarderEOF
    /\ UNCHANGED <<publishVars, inferVars, layerVars, autherVars, storeVars>>

NextPipe ==
    \/ PipeEnter /\ UNCHANGED <<publishVars, inferVars, layerVars, autherVars, storeVars>>
    \/ PipeTag /\ UNCHANGED <<publishVars, inferVars, layerVars, autherVars, storeVars>>
    \/ TransportWrite /\ UNCHANGED <<publishVars, inferVars, layerVars, autherVars, storeVars>>
    \/ ForwarderRead /\ UNCHANGED <<publishVars, inferVars, layerVars, autherVars, storeVars>>
    \/ BufferWrite /\ UNCHANGED <<publishVars, inferVars, layerVars, autherVars, storeVars>>
    \/ PushReturns /\ UNCHANGED <<publishVars, inferVars, layerVars, autherVars, storeVars>>
    \/ PipeVerify /\ UNCHANGED <<publishVars, inferVars, layerVars, autherVars, storeVars>>
    \/ PipeUnwind /\ UNCHANGED <<publishVars, inferVars, layerVars, autherVars, storeVars>>
    \/ ForwarderEOF /\ UNCHANGED <<publishVars, inferVars, layerVars, autherVars, storeVars>>
    \/ Cancel /\ UNCHANGED <<publishVars, inferVars, layerVars, autherVars, storeVars>>

SpecPipe == InitPipe /\ [][NextPipe]_vars

\* every engine call returns and both tasks are scheduled
FairPipe == SpecPipe /\ WF_vars(PusherStep) /\ WF_vars(ForwarderStep)

----------------------------------------------------------------------------
(* Vocabulary of the properties, stated on the raw stream and call log *)

Last(q) == q[Len(q)]

IsTagOrPush(c) == c.op \in {"TagImage", "PushImage"}

TagPushCalls(log) == SelectSeq(log, IsTagOrPush)

MutatingOps == {"CommitContainer", "LoadImage", "TagImage", "PushImage", "RemoveImage"}

\* record k of the stream is reached by the decoder: no undecodable line up to k
Reached(stream, k) == \A j \in 1..k : ~stream[j].bad

BlankText(t) == \A k \in 1..Len(t) : t[k] = " "

ErrorAt(stream, k) == Reached(stream, k) /\ ~BlankText(stream[k].error)

AuxAt(stream, k, tag) ==
    Reached(stream, k) /\ stream[k].hasAux /\ stream[k].auxTag = tag

StreamHasError(stream) == \E k \in 1..Len(stream) : ErrorAt(stream, k)

StreamHasAux(stream, tag) == \E k \in 1..Len(stream) : AuxAt(stream, k, tag)

StreamConfirms(stream, tag) == ~StreamHasError(stream) /\ StreamHasAux(stream, tag)

\* the text an error record is reported with
Rendered(m) ==
    IF m.hasDetail
    THEN <<"C", "o", "d", "e", ":", " ">> \o m.code \o
         <<",", " ", "M", "e", "s", "s", "a", "g", "e", ":", " ">> \o m.message
    ELSE m.error

HasClosePipe == \E k \in 1..Len(defers) : defers[k].kind = "closePipe"

\* tagAndPush has just executed a return statement; no deferred call ran yet
JustReturned ==
    /\ pc = "unwind" /\ HasClosePipe
    /\ calls # <<>> /\ IsTagOrPush(Last(calls))

PushReturnedOk == calls # <<>> /\ Last(calls).op = "PushImage" /\ Last(calls).ok

\* the push of Last(calls).tag was classified as failed / as confirmed, and
\* buf still holds its status stream
Rejected == JustReturned /\ PushReturnedOk /\ ret.code # 0

Accepted == PushReturnedOk /\ (pc = "tag" \/ (JustReturned /\ ret.code = 0))

----------------------------------------------------------------------------
(* C1 *)

\* C1: in non-local mode, once a tag fails (TagImage error, PushImage error,
\* an error record in its stream, or no aux confirmation) the call returns
\* with a non-zero code at once, and after it has returned no further
\* TagImage or PushImage call is ever issued.
C1_SequentialTagAbort ==
    [][ /\ (pc = "verify" /\ ~StreamConfirms(buf, tags[idx]))
              => (Returned' /\ ret'.code # 0 /\ calls' = calls)
        /\ (Len(calls') > Len(calls) /\ IsTagOrPush(Last(calls')) /\ ~Last(calls').ok)
              => (Returned' /\ ret'.code # 0)
        /\ Returned
              => (Returned' /\ TagPushCalls(calls') = TagPushCalls(calls)) ]_vars

\* the first of two tags failed on its status stream; the second was never tried
C1_Witness ==
    /\ pc = "done" /\ ret.code # 0 /\ ~cfg.local
    /\ Len(tags) = 2 /\ tags[1] # tags[2]
    /\ Len(TagPushCalls(calls)) = 2
    /\ Last(TagPushCalls(calls)).op = "PushImage" /\ Last(TagPushCalls(calls)).ok
    /\ \A k \in 1..Len(calls) : calls[k].tag # tags[2]

----------------------------------------------------------------------------
(* C2 *)

\* C2: a tag whose PushImage call returned without error is accepted (the
\* loop goes on, or returns 0) if and only if the records decoded from its
\* buffer up to the first decode failure hold no record with a non-blank
\* error and hold at least one aux record for that tag; a decode failure
\* alone does not fail the push.
C2_AcceptedIffConfirmed ==
    /\ Accepted => StreamConfirms(buf, Last(calls).tag)
    /\ Rejected => ~StreamConfirms(buf, Last(calls).tag)

\* a tag accepted although its stream ends in an undecodable line
C2_Witness ==
    /\ Accepted
    /\ \E k \in 1..Len(buf) : buf[k].bad

----------------------------------------------------------------------------
(* C3 *)

\* C3 as stated: whenever the stream of a push holds a record with a
\* non-empty error field, at any position and whatever precedes it, the push
\* fails with that error. (Read in the claim's favour: the field is not
\* blank, and the error returned is that of some error record of the stream.)
C3_AnyErrorRecordFails ==
    (Accepted \/ Rejected) =>
        \A k \in 1..Len(buf) :
            (~buf[k].bad /\ ~BlankText(buf[k].error)) =>
                /\ Rejected
                /\ \E j \in 1..Len(buf) :
                      /\ ~buf[j].bad /\ ~BlankText(buf[j].error)
                      /\ ret.err.text = Rendered(buf[j])

\* C3, amended: whenever the records decoded up to the first decode failure
\* hold a record with a non-blank error field, the push fails, with the
\* error of the first such record.
C3_FirstDecodedErrorFails ==
    (Accepted \/ Rejected) =>
        \A k \in 1..Len(buf) :
            (ErrorAt(buf, k) /\ \A j \in 1..(k - 1) : ~ErrorAt(buf, j)) =>
                (Rejected /\ ret.err.text = Rendered(buf[k]))

\* a push failed on the first of two error records
C3_Witness ==
    /\ Rejected
    /\ Len(buf) = 2 /\ ErrorAt(buf, 1) /\ ErrorAt(buf, 2)
    /\ Rendered(buf[1]) # Rendered(buf[2])
    /\ ret.err.text = Rendered(buf[1])

----------------------------------------------------------------------------
(* C4 *)

\* C4: the error of a failing tag is the transport error when PushImage
\* itself fails, whatever the buffer holds; otherwise the first decoded
\* error record, rendered from errorDetail when present and from the raw
\* text otherwise; otherwise, with no error record and no matching aux, the
\* NoPushConfirmationInStatus error, which is never returned when an error
\* record was decoded.
C4_ErrorPriority ==
    /\ (JustReturned /\ Last(calls).op = "PushImage" /\ ~Last(calls).ok)
          => ret = [code |-> 1, err |-> [kind |-> "PushImage", text |-> <<"f", "a", "i", "l">>]]
    /\ Rejected =>
          /\ ret.err.kind = "status"
          /\ \A k \in 1..Len(buf) :
                (ErrorAt(buf, k) /\ \A j \in 1..(k - 1) : ~ErrorAt(buf, j)) =>
                    /\ ret.err.text = Rendered(buf[k])
                    /\ ret.err.text # NoPushConfirmationInStatus
                    /\ buf[k].hasDetail =>
                          ret.err.text = <<"C", "o", "d", "e", ":", " ", "c", ",", " ",
                                           "M", "e", "s", "s", "a", "g", "e", ":", " ", "m">>
                    /\ ~buf[k].hasDetail => ret.err.text = buf[k].error
          /\ ~StreamHasError(buf) =>
                /\ ~StreamHasAux(buf, Last(calls).tag)
                /\ ret.err.text = NoPushConfirmationInStatus

\* a push failed on an error record that carries errorDetail, after an aux
\* record for the tag
C4_Witness ==
    /\ Rejected
    /\ Len(buf) = 2 /\ AuxAt(buf, 1, Last(calls).tag)
    /\ ErrorAt(buf, 2) /\ buf[2].hasDetail

----------------------------------------------------------------------------
(* C5 *)

\* C5: when not in local mode, if CheckAccess returns an error or false,
\* Execute (classic and scratch alike) returns a non-zero code with an
\* error, and no CommitContainer, LoadImage, TagImage, PushImage or
\* RemoveImage call is ever issued.
C5_NoMutationWithoutAccess ==
    (\E k \in 1..Len(calls) : calls[k].op = "CheckAccess" /\ ~calls[k].ok) =>
        /\ Returned
        /\ ret.code # 0 /\ ret.err # NilErr
        /\ \A k \in 1..Len(calls) : calls[k].op \notin MutatingOps

\* the scratch path ended on a refused access check
C5_Witness ==
    /\ pc = "done" /\ cfg.path = "scratch" /\ ~cfg.local
    /\ calls # <<>> /\ Last(calls).op = "CheckAccess" /\ ~Last(calls).ok
    /\ ret.code = -1

----------------------------------------------------------------------------
(* C6 *)

OkCallTags(op) ==
    LET sel == SelectSeq(calls, LAMBDA c : c.op = op /\ c.ok)
    IN  [k \in 1..Len(sel) |-> sel[k].tag]

Occurrences(q, x) == Cardinality({k \in 1..Len(q) : q[k] = x})

\* C6: Execute returns code 0 exactly when it returns a nil error, and only
\* when every tag of the list was tagged, in order, and (unless local)
\* pushed and confirmed; a failing tag makes the call fail even after
\* earlier tags were confirmed.
C6_ZeroIffAllTagsDone ==
    Returned =>
        /\ ret.code = 0 <=> ret.err = NilErr
        /\ ret.code = 0 =>
              /\ Len(tags) > 0
              /\ OkCallTags("TagImage") = tags
              /\ \A k \in 1..Len(calls) : IsTagOrPush(calls[k]) => calls[k].ok
              /\ ~cfg.local =>
                    /\ OkCallTags("PushImage") = tags
                    /\ \A k \in 1..Len(tags) :
                          Occurrences(emitted, tags[k]) >= Occurrences(tags, tags[k])

\* the first tag was confirmed, the second one failed, and the call failed
C6_Witness ==
    /\ pc = "done" /\ ~cfg.local /\ Len(tags) = 2
    /\ emitted # <<>> /\ emitted[1] = tags[1]
    /\ Len(TagPushCalls(calls)) = 4
    /\ ret.code # 0 /\ ret.err # NilErr

----------------------------------------------------------------------------
(* Vocabulary of the properties of InferRegistryAndRepository *)

UpperLetters == {"A", "B", "O", "Q", "R"}

NoUpperCase(t) == \A k \in 1..Len(t) : t[k] \notin UpperLetters

InferDone == inferOut.status # "none"

\* the repository argument is an image reference, and this is its domain
RepoIsReference == ~ParseNormalizedNamed(ToLower(inferIn.repository)).nil

RepoDomain == ParseNormalizedNamed(ToLower(inferIn.repository)).domain

HubDomain == <<"d", "o", "c", "k", "e", "r", ".", "i", "o">>

CarriesNonHubDomain == RepoIsReference /\ RepoDomain # HubDomain

CarriesNoDomain == RepoIsReference /\ RepoDomain = HubDomain

RegistryParses == UrlParse(inferIn.registry).ok

RegistryHost == UrlParse(inferIn.registry).host

----------------------------------------------------------------------------
(* C7 *)

\* C7: whenever InferRegistryAndRepository returns without error, the
\* repository it returns is entirely lower-case.
C7_RepositoryLowerCase ==
    inferOut.status = "ok" => NoUpperCase(inferOut.repository)

----------------------------------------------------------------------------
(* C8 *)

\* C8: InferRegistryAndRepository returns an error if and only if the
\* registry argument is non-blank, fails to parse as a URL, and the
\* repository carries no domain other than the public-hub sentinel; in
\* every other case it returns a repository/registry pair and a nil error.
\* (Read in the claim's favour: an empty repository, which is resolved to
\* the default pair before the registry is looked at, carries no domain
\* but is not expected to fail.)
C8_ErrorIffUnresolvable ==
    InferDone =>
        IF /\ inferIn.repository # <<>>
           /\ ~BlankText(inferIn.registry)
           /\ ~RegistryParses
           /\ ~CarriesNonHubDomain
        THEN inferOut.status = "error"
        ELSE inferOut.status = "ok"

----------------------------------------------------------------------------
(* C9 *)

\* C9: for a non-empty repository that carries a non-hub domain D and a
\* registry argument that parses as a URL: when the URL's host differs from
\* D the registry returned is "https://D/v2/", when it equals D the registry
\* is returned unchanged; the repository returned is the lower-cased
\* argument in both cases.
C9_RepositoryDomainWins ==
    (InferDone /\ inferIn.repository # <<>> /\ CarriesNonHubDomain /\ RegistryParses) =>
        /\ inferOut.status = "ok"
        /\ inferOut.repository = ToLower(inferIn.repository)
        /\ RegistryHost # RepoDomain =>
              inferOut.registry =
                  <<"h", "t", "t", "p", "s", ":", "/", "/">> \o RepoDomain \o <<"/", "v", "2", "/">>
        /\ RegistryHost = RepoDomain => inferOut.registry = inferIn.registry

\* an upper-case repository under q.io with a registry on another host
C9_Witness ==
    /\ InferDone /\ CarriesNonHubDomain /\ RegistryParses
    /\ ~NoUpperCase(inferIn.repository)
    /\ RegistryHost = <<"r", ".", "i", "o">>
    /\ inferOut.registry = <<"h", "t", "t", "p", "s", ":", "/", "/", "q", ".", "i", "o", "/", "v", "2", "/">>

----------------------------------------------------------------------------
(* C10 *)

----------------------------------------------------------------------------
(* C11 *)

\* C11: when the repository argument is empty, InferRegistryAndRepository
\* returns the repository "{defaultRegistryHost}/{owner}/{appName}" and the
\* default registry URL with a nil error, whatever the registry argument is.
C11_EmptyRepositoryDefault ==
    (InferDone /\ inferIn.repository = <<>>) =>
        /\ inferOut.status = "ok"
        /\ inferOut.repository =
              inferIn.opts.registryHost \o <<"/">> \o inferIn.opts.owner \o <<"/">> \o inferIn.opts.app
        /\ inferOut.registry = inferIn.opts.registryUrl

\* the default pair returned next to a registry argument that is no URL
C11_Witness ==
    /\ InferDone /\ inferIn.repository = <<>>
    /\ inferIn.registry = <<":", "b">> /\ ~RegistryParses
    /\ inferOut.status = "ok"
    /\ inferOut.repository = <<"w", ".", "i", "o", "/", "o", "w", "n", "/", "a", "p", "p">>
    /\ inferOut.registry = <<"h", "t", "t", "p", "s", ":", "/", "/", "w", ".", "i", "o", "/", "v", "2", "/">>

----------------------------------------------------------------------------
(* C12 *)

\* C12: when the repository is non-empty and the registry argument is empty
\* or blank, InferRegistryAndRepository returns the registry
\* "https://{domain}/v2/" if the repository carries a non-hub domain and the
\* empty registry otherwise, and the repository returned is the argument
\* lower-cased.
C12_BlankRegistryInferred ==
    (InferDone /\ inferIn.repository # <<>> /\ BlankText(inferIn.registry)) =>
        /\ inferOut.status = "ok"
        /\ inferOut.repository = ToLower(inferIn.repository)
        /\ inferOut.registry =
              IF CarriesNonHubDomain
              THEN <<"h", "t", "t", "p", "s", ":", "/", "/">> \o RepoDomain \o <<"/", "v", "2", "/">>
              ELSE <<>>

----------------------------------------------------------------------------
(* C13 *)

\* the tag list buildTags must produce for the configured tags
ExpectedTags(configured, builtIn) ==
    IF configured # <<>> THEN configured
    ELSE IF builtIn THEN <<T_latest, <<"m", "-", "1">>>>
    ELSE <<T_latest>>

\* C13: buildTags returns the explicit tags verbatim (order and duplicates
\* kept) when at least one is configured, ["latest"] when none is and the
\* built-in registry is not in use, ["latest", "{gitBranch}-{gitCommit}"]
\* when none is and it is in use; the result is never empty, a second call
\* returns the same list, and it is the list tagAndPush works on.
C13_BuildTagsPolicy ==
    /\ \A b \in BOOLEAN :
          /\ buildTags(cfg.tags, b) = ExpectedTags(cfg.tags, b)
          /\ buildTags(cfg.tags, b) # <<>>
          /\ buildTags(buildTags(cfg.tags, b), b) = buildTags(cfg.tags, b)
    /\ pc \in {"tagAndPush", "tag", "push", "verify"} =>
          tags = ExpectedTags(cfg.tags, cfg.builtInPush)

\* no tag configured, built-in registry in use: the loop runs on two tags
C13_Witness ==
    /\ pc = "tag" /\ cfg.tags = <<>> /\ cfg.builtInPush
    /\ tags = <<T_latest, <<"m", "-", "1">>>>

----------------------------------------------------------------------------
(* C14 *)

AllCallTags(op) ==
    LET sel == SelectSeq(calls, LAMBDA c : c.op = op)
    IN  [k \in 1..Len(sel) |-> sel[k].tag]

IsPrefix(q, r) == Len(q) <= Len(r) /\ SubSeq(r, 1, Len(q)) = q

\* C14: in local mode neither CheckAccess nor PushImage is ever called and
\* no status stream is written or decoded; TagImage is called for the tags
\* of the list in order, once each, and when all of them succeed the call
\* returns 0.
C14_LocalTagsOnly ==
    cfg.local =>
        /\ \A k \in 1..Len(calls) : calls[k].op \notin {"CheckAccess", "PushImage"}
        /\ pc \notin {"push", "verify"} /\ buf = <<>> /\ emitted = <<>>
        /\ IsPrefix(AllCallTags("TagImage"), tags)
        /\ (Returned /\ tags # <<>> /\ OkCallTags("TagImage") = tags) =>
              (ret.code = 0 /\ ret.err = NilErr)

\* a local run over two tags that returned 0 after two TagImage calls
C14_Witness ==
    /\ cfg.local /\ pc = "done" /\ ret.code = 0
    /\ Len(tags) = 2 /\ AllCallTags("TagImage") = tags
    /\ \A k \in 1..Len(calls) : calls[k].op \in {"TagImage", "CommitContainer", "LoadImage", "RemoveImage"}

----------------------------------------------------------------------------
(* C15 *)

\* C15: on every return of DockerScratchPushStep.Execute after the scratch
\* directory was created (success, or failure at any later step, the rename
\* of the layer file included), the scratch directory tree has been removed.
\* (Read in the claim's favour: the directory counts as created once
\* os.MkdirAll has succeeded.)
C15_ScratchDirRemoved ==
    (cfg.path = "scratch" /\ pc = "done" /\ ret.err.kind # "mkdir") => ~scratchDir

----------------------------------------------------------------------------
(* C16 *)

IndexTags == [k \in 1..Len(index.entries) |-> index.entries[k].tag]

\* C16: on the scratch path the repositories index names one repository,
\* the authenticator-canonical one, and maps every tag of the tag list to
\* the layerID of this call; the tags tagAndPush then tags and pushes are
\* those of the index, under that repository, with that layerID as image id.
C16_IndexMatchesPush ==
    cfg.path = "scratch" =>
        /\ pc \in {"authorize", "load", "tagAndPush", "tag", "push", "verify"} =>
              /\ index.repo = "canon/repo"
              /\ IndexTags = tags /\ tags # <<>>
              /\ \A k \in 1..Len(index.entries) : index.entries[k].layer = "layer"
        /\ \A k \in 1..Len(calls) :
              IsTagOrPush(calls[k]) =>
                  /\ calls[k].repo = index.repo
                  /\ calls[k].op = "TagImage" => calls[k].id = "layer"
                  /\ \E j \in 1..Len(index.entries) :
                        /\ index.entries[j].tag = calls[k].tag
                        /\ index.entries[j].layer = "layer"
        /\ IsPrefix(AllCallTags("TagImage"), IndexTags)
        /\ IsPrefix(AllCallTags("PushImage"), IndexTags)
        /\ (Returned /\ ret.code = 0) => AllCallTags("TagImage") = IndexTags

\* a scratch push of two different tags that returned 0
C16_Witness ==
    /\ cfg.path = "scratch" /\ ~cfg.local /\ pc = "done" /\ ret.code = 0
    /\ Len(index.entries) = 2 /\ index.entries[1].tag # index.entries[2].tag
    /\ AllCallTags("PushImage") = IndexTags

----------------------------------------------------------------------------
(* C17 *)

AllButLast(q) == SubSeq(q, 1, Len(q) - 1)

\* the tags whose push has been confirmed so far, in order: those of the
\* PushImage calls that succeeded, but for the one still to be classified
\* or classified as failed
ConfirmedTags ==
    IF pc = "verify" \/ (Returned /\ ret.err.kind = "status")
    THEN AllButLast(OkCallTags("PushImage"))
    ELSE OkCallTags("PushImage")

\* C17: "Pushed {repository}:{tag}" is emitted exactly once for each tag
\* whose push is confirmed and never for a tag whose push ends in failure,
\* whatever the status stream holds (several aux records for the tag, an
\* aux record before an error record).
C17_PushedOncePerConfirmedTag == emitted = ConfirmedTags

----------------------------------------------------------------------------
(* C18 *)

\* the classic path committed the container with cleanup-after-push set,
\* and Execute has returned with every deferred call run
CommittedWithCleanupDone ==
    /\ pc = "done" /\ cfg.path = "classic" /\ cfg.cleanupImage
    /\ \E k \in 1..Len(calls) : calls[k].op = "CommitContainer" /\ calls[k].ok

\* C18 as stated: on the classic commit path with cleanup-after-push and a
\* successful commit, image removal is issued for the first tag's
\* repository:tag pair only, exactly once, whichever exit path is taken.
C18_OnlyFirstTagRemovedOnce ==
    CommittedWithCleanupDone => AllCallTags("RemoveImage") = <<tags[1]>>

\* C18, amended: there the removal Execute itself deferred targets the first
\* tag's pair and runs exactly once, as the last call, whichever exit path
\* is taken; besides it, tagAndPush removes repository:tag once for every
\* TagImage call that succeeded, the first tag's included.
C18_FirstTagRemovedAfterTagCleanups ==
    CommittedWithCleanupDone =>
        /\ Last(calls).op = "RemoveImage" /\ Last(calls).tag = tags[1]
        /\ Last(calls).repo = "canon/repo"
        /\ \A k \in 1..Len(tags) :
              Occurrences(AllCallTags("RemoveImage"), tags[k]) =
                  Occurrences(OkCallTags("TagImage"), tags[k])
                  + (IF tags[k] = tags[1] THEN 1 ELSE 0)
        /\ Len(AllCallTags("RemoveImage")) = Len(OkCallTags("TagImage")) + 1

\* two tags were tagged after the commit: three removals, two of the first tag
C18_Witness ==
    /\ CommittedWithCleanupDone
    /\ Len(tags) = 2 /\ tags[1] # tags[2]
    /\ AllCallTags("RemoveImage") = <<tags[2], tags[1], tags[1]>>

----------------------------------------------------------------------------
(* C19 *)

Pair(c) == <<c.repo, c.tag>>

\* the repository:tag pairs this call created
CreatedPairs ==
    {Pair(calls[k]) : k \in {j \in 1..Len(calls) :
                                calls[j].ok /\ calls[j].op \in {"CommitContainer", "TagImage"}}}

RemovedPairs == {Pair(calls[k]) : k \in {j \in 1..Len(calls) : calls[j].op = "RemoveImage"}}

\* the state part of C19: who is removed, and when
C19_RemovalTargets ==
    /\ ~cfg.cleanupImage => RemovedPairs = {}
    /\ RemovedPairs \subseteq CreatedPairs
    /\ (pc = "done" /\ cfg.cleanupImage) => RemovedPairs = CreatedPairs
    /\ \A k \in 1..Len(calls) :
          calls[k].op = "RemoveImage" =>
              /\ Returned
              /\ \A j \in (k + 1)..Len(calls) : calls[j].op = "RemoveImage"

\* C19: RemoveImage is called only when cleanup-after-push is configured;
\* its targets are the repository:tag pairs this call created (the committed
\* first tag and every tag whose TagImage call succeeded), all of them once
\* the call is over; every removal comes after the last TagImage/PushImage
\* call, on success and on every failure path; and a removal, failed or
\* not, never changes the returned code or error.
C19_CleanupOnlyOwnImages ==
    /\ []C19_RemovalTargets
    /\ [][ (Len(calls') > Len(calls) /\ Last(calls').op = "RemoveImage") => ret' = ret ]_vars

\* a failed push of the second tag, followed by removals of which one failed
C19_Witness ==
    /\ pc = "done" /\ cfg.cleanupImage /\ ret.code # 0
    /\ Len(tags) = 2 /\ tags[1] # tags[2]
    /\ OkCallTags("TagImage") = tags
    /\ RemovedPairs = {<<"canon/repo", tags[1]>>, <<"canon/repo", tags[2]>>}
    /\ ~Last(calls).ok

----------------------------------------------------------------------------
(* C20 *)

\* the name an entry must get, name by name ("": the entry is dropped)
ExpectedName(name) ==
    CASE name = <<".", "/">> -> <<>>
      [] name = <<"o", "u", "t", "p", "u", "t", "/">> -> <<>>
      [] name = <<"s", "o", "u", "r", "c", "e", "/">> -> <<>>
      [] name = <<"a">> -> <<"a">>
      [] name = <<"o", "u", "t", "p", "u", "t", "/", "a">> -> <<"a">>
      [] name = <<"s", "o", "u", "r", "c", "e", "/", "a">> -> <<"a">>
      [] name = <<"o", "u", "t", "p", "u", "t", "/", "s", "o", "u", "r", "c", "e", "/", "a">>
            -> <<"s", "o", "u", "r", "c", "e", "/", "a">>
      [] name = <<"s", "o", "u", "r", "c", "e", "/", "o", "u", "t", "p", "u", "t", "/">>
            -> <<"o", "u", "t", "p", "u", "t", "/">>
      [] name = <<"o", "u", "t", "p", "u", "t", "/", "o", "u", "t", "p", "u", "t", "/">>
            -> <<"o", "u", "t", "p", "u", "t", "/">>
      [] name = <<"o", "u", "t", "p", "u", "t", "/", ".", "/">> -> <<".", "/">>

Kept == SelectSeq(tarIn, LAMBDA e : ExpectedName(e.name) # <<>>)

----------------------------------------------------------------------------
(* C23 *)

CallsOf(op) == SelectSeq(calls, LAMBDA c : c.op = op)

\* position of the first call of op in the log (0: none)
FirstCallOf(op) ==
    IF \E k \in 1..Len(calls) : calls[k].op = op
    THEN CHOOSE k \in 1..Len(calls) :
            calls[k].op = op /\ \A j \in 1..(k - 1) : calls[j].op # op
    ELSE 0

\* C23: in DockerPushStep.Execute, with an existing image configured
\* CommitContainer is never called, no commit-level removal is scheduled,
\* and every TagImage call is given that image; with none configured
\* CommitContainer is called exactly once before any tag is tagged, after
\* the access check (where one is made) has succeeded, with the first tag
\* of the list, and every TagImage call is given the id it returned.
C23_CommitOrReuse ==
    cfg.path = "classic" =>
        /\ cfg.image # "" =>
              /\ CallsOf("CommitContainer") = <<>>
              /\ \A k \in 1..Len(calls) : calls[k].op = "TagImage" => calls[k].id = cfg.image
              /\ Len(CallsOf("RemoveImage")) <= Len(OkCallTags("TagImage"))
        /\ cfg.image = "" =>
              /\ Len(CallsOf("CommitContainer")) <= 1
              /\ pc \in {"tagAndPush", "tag", "push", "verify"} =>
                    Len(CallsOf("CommitContainer")) = 1
              /\ \A k \in 1..Len(calls) :
                    calls[k].op = "CommitContainer" =>
                        /\ calls[k].tag = tags[1]
                        /\ \A j \in 1..(k - 1) : calls[j].op = "CheckAccess" /\ calls[j].ok
                        /\ ~cfg.local => k = 2
              /\ \A k \in 1..Len(calls) :
                    calls[k].op = "TagImage" =>
                        /\ calls[k].id = "commit"
                        /\ FirstCallOf("CommitContainer") \in 1..(k - 1)
                        /\ calls[FirstCallOf("CommitContainer")].ok

\* two tags tagged from one commit
C23_Witness ==
    /\ cfg.path = "classic" /\ cfg.image = "" /\ ~cfg.local /\ pc = "done"
    /\ Len(CallsOf("CommitContainer")) = 1
    /\ Len(CallsOf("TagImage")) = 2
    /\ \A k \in 1..Len(calls) : calls[k].op = "TagImage" => calls[k].id = "commit"

----------------------------------------------------------------------------
(* C24 *)

EngineOps == {"CommitContainer", "TagImage", "PushImage", "RemoveImage"}

C28_CollectFallback ==
    collects # <<>> =>
        /\ Len(collects) <= 2
        /\ collects[1].dir = "output"
        /\ Len(collects) = 2 <=> collects[1].outcome = "empty"
        /\ Len(collects) = 2 => collects[2].dir = "source"
        /\ LastCollect(collects).outcome # "ok" =>
              /\ tarOut = LayerStage("error", <<>>)
              /\ layer = LayerReturn(NoLayer)
        /\ LastCollect(collects).outcome = "ok" /\ Len(collects) = 1 =>
              tarOut.status # "none"

C28_Witness ==
    /\ Len(collects) = 2
    /\ collects[1] = CollectCall("output", "empty")
    /\ collects[2] = CollectCall("source", "empty")
    /\ layer.returned = <<-1>>

C27_TarWriterFinalised ==
    layer # <<>> /\ layer.diffID # NoDigest =>
        /\ layer.file # <<>>
        /\ layer.file[Len(layer.file)].kind = "trailer"

\* C29: after buildAutherOpts the built-in flag is set exactly when the
\* registry reached is the runner's own registry URL; exactly then the
\* credentials are "token" and the run's auth token, otherwise they are the
\* configured ones. A step with an empty repository and no AWS or Azure secret
\* always ends with the flag set and, if it has no tags, buildTags gives it
\* "latest" and "{GitBranch}-{GitCommit}". With an AWS secret key or an Azure
\* client secret, repository and registry are the configured ones.
C29_BuiltInRegistry ==
    autherOut # <<>> /\ autherOut.status # "none" =>
        /\ autherOut.status # "panic" =>
              /\ autherOut.builtInPush <=> autherOut.registry = autherIn.options.registryUrl
              /\ autherOut.builtInPush =>
                    autherOut.username = S_token /\ autherOut.password = autherIn.authToken
              /\ ~autherOut.builtInPush =>
                    /\ autherOut.username = autherIn.username
                    /\ autherOut.password = autherIn.password
        /\ autherIn.repository = <<>> /\ autherIn.awsSecretKey = <<>>
              /\ autherIn.azureClientSecret = <<>> =>
              /\ autherOut.status # "panic"
              /\ autherOut.builtInPush
              /\ autherOut.password = autherIn.authToken
              /\ autherOut.status = "tagged" /\ autherIn.tags = <<>> =>
                    autherOut.tags = <<T_latest, GitTag>>
        /\ autherIn.awsSecretKey # <<>> \/ autherIn.azureClientSecret # <<>> =>
              /\ autherOut.status # "panic"
              /\ autherOut.repository = autherIn.repository
              /\ autherOut.registry = autherIn.registry

C29_Witness ==
    /\ autherOut # <<>> /\ autherOut.status = "tagged"
    /\ autherIn.repository = <<>> /\ autherIn.registry = RegistryUrlOf(S_qio)
    /\ autherIn.username = <<"u">>
    /\ autherIn.awsSecretKey = <<>> /\ autherIn.azureClientSecret = <<>>
    /\ autherIn.tags = <<>>
    /\ autherOut.builtInPush /\ autherOut.username = S_token
    /\ autherOut.tags = <<T_latest, GitTag>>

\* C30: StoreFromFile never crashes; when the client cannot be created or
\* the file cannot be examined or opened it returns an error without an upload
\* request; when these all succeed it issues exactly one request whatever
\* MaxTries is, and returns nil exactly when that request succeeded.
C30_ErrorNotCrash ==
    storeOut # <<>> =>
        /\ storeOut.at # "crash"
        /\ storeOut.at = "returned" =>
              IF storeIn.client = "error" \/ storeIn.stat = "error" \/ storeIn.open = "error"
              THEN storeOut.err # "nil" /\ storeOut.requests = 0
              ELSE /\ storeOut.requests = 1
                   /\ storeOut.maxTries = (IF storeIn.maxTries = 0 THEN 1 ELSE storeIn.maxTries)
                   /\ storeOut.err = "nil" <=> storeIn.put = "ok"

\* the chunks of the forwarder's stream that iteration k wrote
ReadOf(k) == SelectSeq(forwarder.read, LAMBDA c : c.push = k)

TagCalls == SelectSeq(pusher.calls, LAMBDA c : c.op = "TagImage")

\* C21: a request cancelled while a push was in flight ends with the pipe
\* writer closed, a non-zero code, and no tag attempted after the one in
\* flight.
C21_CancelFailsPush ==
    pusher # <<>> /\ pusher.pc = "done" /\ ctx.cancelled /\ ctx.at = "push" =>
        /\ pipe.state = "closed"
        /\ pusher.code # 0
        /\ Len(TagCalls) <= ctx.idx

\* C22: the buffer holds chunks of the current iteration only, and always a
\* prefix of what the forwarder has read of that iteration, at most the chunk
\* in the middle of its MultiWriter write behind, and nothing behind once
\* that write or the push has returned; the forwarder's stream holds the
\* chunks of all iterations in the order of the iterations.
C22_PipeThenBuffer ==
    pusher # <<>> /\ pusher.pc \in {"push", "pipeWrite", "verify"} =>
        /\ \A k \in 1..Len(pusher.buf) : pusher.buf[k].push = pusher.idx
        /\ IsPrefix(pusher.buf, ReadOf(pusher.idx))
        /\ Len(ReadOf(pusher.idx)) <= Len(pusher.buf) + 1
        /\ pusher.pc # "pipeWrite" => pusher.buf = ReadOf(pusher.idx)
        /\ pusher.pc = "pipeWrite" /\ pipe.pending # <<>> => pusher.buf = ReadOf(pusher.idx)
        /\ \A i, j \in 1..Len(forwarder.read) :
              i <= j => forwarder.read[i].push <= forwarder.read[j].push

C22_Witness ==
    /\ pusher # <<>> /\ pusher.pc = "verify" /\ pusher.idx = 2
    /\ Len(pusher.buf) = 2
    /\ Len(forwarder.read) = 4
    /\ pusher.buf = ReadOf(2)
    /\ Len(ReadOf(1)) = 2

\* C25: the pipe writer is closed on every return of tagAndPush, and only
\* once no deferred image removal is left; when every engine call returns and
\* the forwarder keeps reading, tagAndPush returns and the forwarder reaches
\* the end of the stream.
C25_PipeClosedLast ==
    /\ [](pusher.pc = "done" => pipe.state = "closed")
    /\ [](pipe.state = "closed" => pusher.defers = <<>>)
    /\ <>(pusher.pc = "done" /\ forwarder.eof)

C25_Witness ==
    /\ pusher # <<>> /\ pusher.pc = "done" /\ forwarder.eof
    /\ pusher.code = 1
    /\ pipe.state = "closed"
    /\ pusher.idx = 2
    /\ \E k \in 1..Len(pusher.calls) :
          /\ pusher.calls[k] = PushCall("PushImage", T_b, FALSE)
          /\ k + 2 = Len(pusher.calls)
          /\ pusher.calls[k + 1].op = "RemoveImage" /\ pusher.calls[k + 1].tag = T_b
          /\ pusher.calls[k + 2].op = "RemoveImage" /\ pusher.calls[k + 2].tag = T_a

====
